---- MODULE Spec2Model ----
(***************************************************************************)
(* Model of the execution-plan viewer of the PostgreSQL Query Analyzer     *)
(* frontend (frontend/src/components/ExecutionPlan.js).                    *)
(*                                                                         *)
(* A JavaScript value is a record [t |-> type tag, v |-> payload]:         *)
(*   undefined, null, boolean, number, string, array (a sequence of        *)
(*   values) and object (a sequence of [k |-> key, v |-> value] entries in *)
(*   insertion order, which is the order Object.entries reports).          *)
(* The Cyrillic literals of the source are written transliterated, since   *)
(* the module is ASCII: the label for true is "Da", for false "Net".       *)
(* Costs are floating-point in a real plan; the model uses integers, which *)
(* the viewer passes through in the same way.                              *)
(***************************************************************************)
EXTENDS Integers, Sequences, FiniteSets, TLC

VARIABLES
    plan,           \* the `plan` prop: the raw plan document (never assigned)
    showDetails,    \* useState(false), ExecutionPlan.js:5
    expandedNodes,  \* useState(new Set()), ExecutionPlan.js:6
    view,           \* what the last render pass of the component returned
    failed,         \* "none", or where an exception was raised: "handler", "render"
    query,            \* useState(''), App.js:14
    analysis,         \* useState(null), App.js:15
    isLoading,        \* useState(false), App.js:16
    error,            \* useState(null), App.js:17
    examples,         \* useState([]), App.js:18
    activeTab,        \* useState('query'), App.js:19
    currentModel,     \* useState(null), App.js:20
    selectedDatabase, \* useState(null), App.js:21
    showExamples,     \* useState(false) of QueryEditor
    expandedItems,    \* useState({}) of Recommendations: the indexes set to true
    models,           \* useState([]) of ModelSelector
    loads,            \* the background loads started on mount that have not settled
    requests,         \* the POST /analyze calls that have no response yet
    overtaken,        \* whether handleModelChange ran since the call in flight was made
    selector,         \* currentModel, isOpen, isLoading, error of ModelSelector
    switches,         \* the POST /models/switch calls that have no response yet
    profiles,         \* useState([]) of DatabaseProfiles
    deletes,          \* the deleteProfile calls that wait for their response
    deleted           \* the ids of the profiles whose DELETE was answered with success

planVars == <<plan, showDetails, expandedNodes, view, failed>>

\* The state of ModelSelector and DatabaseProfiles and of their requests.
sideVars == <<selector, switches, profiles, deletes, deleted>>

appVars == <<query, analysis, isLoading, error, examples, activeTab, currentModel,
             selectedDatabase, showExamples, expandedItems, models, loads,
             requests, overtaken, sideVars>>

vars == <<planVars, appVars>>

----------------------------------------------------------------------------
(* JavaScript values *)

Undefined == [t |-> "undefined", v |-> 0]
Null      == [t |-> "null", v |-> 0]
Bool(b)   == [t |-> "boolean", v |-> b]
Num(n)    == [t |-> "number", v |-> n]
Str(s)    == [t |-> "string", v |-> s]
Arr(a)    == [t |-> "array", v |-> a]
Obj(es)   == [t |-> "object", v |-> es]
Entry(key, value) == [k |-> key, v |-> value]

\* ToBoolean: undefined, null, false, 0 and "" are falsy.
Truthy(x) ==
    CASE x.t = "undefined" -> FALSE
      [] x.t = "null"      -> FALSE
      [] x.t = "boolean"   -> x.v
      [] x.t = "number"    -> x.v # 0
      [] x.t = "string"    -> x.v # ""
      [] OTHER             -> TRUE

\* node[key]: the value of the entry with that key, undefined when absent.
Get(node, key) ==
    IF node.t = "object" /\ \E i \in 1..Len(node.v) : node.v[i].k = key
    THEN LET i == CHOOSE j \in 1..Len(node.v) : node.v[j].k = key
         IN  node.v[i].v
    ELSE Undefined

\* x.length
Length(x) ==
    CASE x.t = "array"  -> Num(Len(x.v))
      [] x.t = "string" -> Num(Len(x.v))
      [] x.t = "object" -> Get(x, "length")
      [] OTHER          -> Undefined

RECURSIVE JoinStrings(_, _)
JoinStrings(ss, sep) ==
    IF Len(ss) = 0 THEN ""
    ELSE IF Len(ss) = 1 THEN ss[1]
    ELSE ss[1] \o sep \o JoinStrings(Tail(ss), sep)

\* ToString of a value, as a template literal or Array.prototype.join applies it.
RECURSIVE ToStr(_)
ToStr(x) ==
    CASE x.t = "undefined" -> "undefined"
      [] x.t = "null"      -> "null"
      [] x.t = "boolean"   -> IF x.v THEN "true" ELSE "false"
      [] x.t = "number"    -> ToString(x.v)
      [] x.t = "string"    -> x.v
      [] x.t = "array"     ->
           JoinStrings([i \in 1..Len(x.v) |->
                          IF x.v[i].t \in {"undefined", "null"} THEN ""
                          ELSE ToStr(x.v[i])], ",")
      [] OTHER             -> "[object Object]"

\* value.join(sep): null and undefined elements give the empty string.
Join(x, sep) ==
    JoinStrings([i \in 1..Len(x.v) |->
                   IF x.v[i].t \in {"undefined", "null"} THEN ""
                   ELSE ToStr(x.v[i])], sep)

----------------------------------------------------------------------------
(* The static tables of the component *)

\* fieldNames, ExecutionPlan.js:27-51 (labels transliterated).
fieldNames ==
    [k \in {"Node Type", "Total Cost", "Startup Cost", "Plan Rows", "Plan Width",
            "Join Type", "Strategy", "Index Name", "Relation Name", "Alias",
            "Hash Cond", "Index Cond", "Filter", "Sort Key", "Group Key",
            "Scan Direction", "Parallel Aware", "Async Capable", "Inner Unique",
            "Partial Mode", "Planned Partitions", "Parent Relationship",
            "Query Type"} |->
        CASE k = "Node Type"           -> "Tip uzla"
          [] k = "Total Cost"          -> "Obshchaya stoimost"
          [] k = "Startup Cost"        -> "Stoimost zapuska"
          [] k = "Plan Rows"           -> "Ozhidaemye stroki"
          [] k = "Plan Width"          -> "Shirina stroki"
          [] k = "Join Type"           -> "Tip soedineniya"
          [] k = "Strategy"            -> "Strategiya"
          [] k = "Index Name"          -> "Nazvanie indeksa"
          [] k = "Relation Name"       -> "Nazvanie tablitsy"
          [] k = "Alias"               -> "Psevdonim"
          [] k = "Hash Cond"           -> "Uslovie khesha"
          [] k = "Index Cond"          -> "Uslovie indeksa"
          [] k = "Filter"              -> "Filtr"
          [] k = "Sort Key"            -> "Klyuch sortirovki"
          [] k = "Group Key"           -> "Klyuch gruppirovki"
          [] k = "Scan Direction"      -> "Napravlenie skanirovaniya"
          [] k = "Parallel Aware"      -> "Parallelnyi"
          [] k = "Async Capable"       -> "Asinkhronnyi"
          [] k = "Inner Unique"        -> "Vnutrennyaya unikalnost"
          [] k = "Partial Mode"        -> "Rezhim chastichnoi agregatsii"
          [] k = "Planned Partitions"  -> "Zaplanirovannye partitsii"
          [] k = "Parent Relationship" -> "Svyaz s roditelem"
          [] OTHER                     -> "Tip zaprosa"]

\* fieldDescriptions, ExecutionPlan.js:54-78: one fixed text per key of
\* fieldNames; the text of key k is written "fieldDescriptions/k".
fieldDescriptions == [k \in DOMAIN fieldNames |-> "fieldDescriptions/" \o k]

\* fieldNames[key] || key
\* A title with no fallback to the key.
FieldTitle_NoFallback(key) == IF key \in DOMAIN fieldNames THEN fieldNames[key] ELSE ""

FieldTitle(key) == IF key \in DOMAIN fieldNames THEN fieldNames[key] ELSE key

\* switch (nodeType) with strict equality: only a string can match a case.
getNodeTypeColor(nodeType) ==
    IF nodeType.t # "string" THEN "text-gray-600 bg-gray-50"
    ELSE CASE nodeType.v \in {"Index Scan", "Index Only Scan"} -> "text-green-600 bg-green-50"
           [] nodeType.v = "Seq Scan"  -> "text-yellow-600 bg-yellow-50"
           [] nodeType.v \in {"Hash Join", "Nested Loop", "Merge Join"} -> "text-blue-600 bg-blue-50"
           [] nodeType.v = "Sort"      -> "text-purple-600 bg-purple-50"
           [] nodeType.v = "Aggregate" -> "text-indigo-600 bg-indigo-50"
           [] nodeType.v = "Limit"     -> "text-orange-600 bg-orange-50"
           [] OTHER                    -> "text-gray-600 bg-gray-50"

getNodeTypeIcon(nodeType) ==
    IF nodeType.t # "string" THEN "Database"
    ELSE CASE nodeType.v \in {"Index Scan", "Index Only Scan"} -> "Zap"
           [] nodeType.v = "Seq Scan"  -> "Database"
           [] nodeType.v \in {"Hash Join", "Nested Loop", "Merge Join"} -> "BarChart3"
           [] nodeType.v \in {"Sort", "Aggregate"} -> "BarChart3"
           [] nodeType.v = "Limit"     -> "Clock"
           [] OTHER                    -> "Database"

getFieldIconAndColor(key, value) ==
    CASE key = "Node Type"     -> [icon |-> getNodeTypeIcon(value), color |-> getNodeTypeColor(value)]
      [] key = "Total Cost"    -> [icon |-> "BarChart3", color |-> "text-red-600 bg-red-50"]
      [] key = "Startup Cost"  -> [icon |-> "Clock", color |-> "text-purple-600 bg-purple-50"]
      [] key = "Plan Rows"     -> [icon |-> "Database", color |-> "text-blue-600 bg-blue-50"]
      [] key = "Plan Width"    -> [icon |-> "BarChart3", color |-> "text-indigo-600 bg-indigo-50"]
      [] key = "Join Type"     -> [icon |-> "BarChart3", color |-> "text-cyan-600 bg-cyan-50"]
      [] key = "Strategy"      -> [icon |-> "BarChart3", color |-> "text-teal-600 bg-teal-50"]
      [] key = "Index Name"    -> [icon |-> "Zap", color |-> "text-green-600 bg-green-50"]
      [] key = "Relation Name" -> [icon |-> "Database", color |-> "text-gray-600 bg-gray-50"]
      [] key = "Alias"         -> [icon |-> "Database", color |-> "text-gray-500 bg-gray-50"]
      [] key = "Hash Cond"     -> [icon |-> "BarChart3", color |-> "text-blue-500 bg-blue-50"]
      [] key = "Index Cond"    -> [icon |-> "Zap", color |-> "text-green-500 bg-green-50"]
      [] key = "Filter"        -> [icon |-> "BarChart3", color |-> "text-yellow-500 bg-yellow-50"]
      [] key = "Sort Key"      -> [icon |-> "BarChart3", color |-> "text-purple-500 bg-purple-50"]
      [] key = "Group Key"     -> [icon |-> "BarChart3", color |-> "text-indigo-500 bg-indigo-50"]
      [] key = "Scan Direction" -> [icon |-> "BarChart3", color |-> "text-orange-500 bg-orange-50"]
      [] key \in {"Parallel Aware", "Inner Unique"} ->
           [icon |-> "BarChart3",
            color |-> IF Truthy(value) THEN "text-green-500 bg-green-50" ELSE "text-gray-500 bg-gray-50"]
      [] key = "Async Capable" ->
           [icon |-> "BarChart3",
            color |-> IF Truthy(value) THEN "text-blue-500 bg-blue-50" ELSE "text-gray-500 bg-gray-50"]
      [] key = "Partial Mode"  -> [icon |-> "BarChart3", color |-> "text-teal-500 bg-teal-50"]
      [] key = "Planned Partitions" -> [icon |-> "Database", color |-> "text-violet-500 bg-violet-50"]
      [] key = "Parent Relationship" -> [icon |-> "BarChart3", color |-> "text-slate-500 bg-slate-50"]
      [] key = "Query Type"    -> [icon |-> "Database", color |-> "text-emerald-500 bg-emerald-50"]
      [] OTHER                 -> [icon |-> "BarChart3", color |-> "text-gray-500 bg-gray-50"]

----------------------------------------------------------------------------
(* Field classification *)

\* const primaryFields = [...], ExecutionPlan.js:204 and :222
primaryFields == <<"Node Type", "Total Cost", "Plan Rows", "Startup Cost">>

Includes(seq, x) == \E i \in 1..Len(seq) : seq[i] = x

\* Object.entries(node): the own entries of an object in insertion order,
\* the elements of an array and the characters of a string by index, nothing
\* for a number or a boolean.
ObjectEntries(node) ==
    CASE node.t = "object" -> node.v
      [] node.t = "array"  -> [i \in 1..Len(node.v) |-> Entry(ToString(i - 1), node.v[i])]
      [] node.t = "string" -> [i \in 1..Len(node.v) |->
                                 Entry(ToString(i - 1), Str(SubSeq(node.v, i, i)))]
      [] OTHER             -> <<>>

PrimaryKept(node, key) == Get(node, key).t \notin {"undefined", "null"}

\* A primary card that formats its value the way a secondary card does.
PrimaryMetric_Formatted(node, key) ==
    LET ic  == getFieldIconAndColor(key, Get(node, key))
        raw == Get(node, key)
    IN  [icon        |-> ic.icon,
         title       |-> FieldTitle(key),
         value       |-> IF raw.t = "boolean" THEN Str(IF raw.v THEN "Da" ELSE "Net") ELSE raw,
         unit        |-> "",
         color       |-> ic.color,
         description |-> fieldDescriptions[key]]

PrimaryMetric(node, key) ==
    LET ic == getFieldIconAndColor(key, Get(node, key))
    IN  [icon        |-> ic.icon,
         title       |-> FieldTitle(key),
         value       |-> Get(node, key),
         unit        |-> "",
         color       |-> ic.color,
         description |-> fieldDescriptions[key]]

\* ExecutionPlan.js:203-218
getPrimaryMetrics(node) ==
    LET kept == SelectSeq(primaryFields, LAMBDA key : PrimaryKept(node, key))
    IN  [i \in 1..Len(kept) |-> PrimaryMetric(node, kept[i])]

\* The secondary filter without the exclusion of the primary fields.
SecondaryKept_PrimaryToo(e) ==
    /\ e.k # "Plans"
    /\ e.v.t # "undefined"
    /\ e.v.t # "null"

\* The secondary filter without the test for null.
SecondaryKept_NullKept(e) ==
    /\ e.k # "Plans"
    /\ ~Includes(primaryFields, e.k)
    /\ e.v.t # "undefined"

SecondaryKept(e) ==
    /\ e.k # "Plans"
    /\ ~Includes(primaryFields, e.k)
    /\ e.v.t # "undefined"
    /\ e.v.t # "null"

\* A display value that joins arrays but leaves booleans as they are.
DisplayValue_RawBoolean(value) ==
    IF value.t = "array" THEN Str(Join(value, ", ")) ELSE value

\* ExecutionPlan.js:232-237
DisplayValue(value) ==
    IF value.t = "array" THEN Str(Join(value, ", "))
    ELSE IF value.t = "boolean" THEN Str(IF value.v THEN "Da" ELSE "Net")
    ELSE value

SecondaryMetric(e) ==
    LET ic           == getFieldIconAndColor(e.k, e.v)
        displayValue == DisplayValue(e.v)
    IN  [icon        |-> ic.icon,
         title       |-> FieldTitle(e.k),
         value       |-> displayValue,
         unit        |-> "",
         color       |-> ic.color,
         description |-> IF e.k \in DOMAIN fieldDescriptions
                         THEN fieldDescriptions[e.k]
                         ELSE "Opisanie dlya polya " \o e.k,
         isLongText  |-> displayValue.t = "string" /\ Len(displayValue.v) > 20]

\* ExecutionPlan.js:221-252
getSecondaryMetrics(node) ==
    LET kept == SelectSeq(ObjectEntries(node), SecondaryKept)
    IN  [i \in 1..Len(kept) |-> SecondaryMetric(kept[i])]

----------------------------------------------------------------------------
(* The tree of one render pass *)

\* An identifier made of the depth and the node type only.
getNodeId_NoIndex(node, depth, index) ==
    LET nodeType == Get(node, "Node Type")
    IN  ToString(depth) \o "-"
          \o ToStr(IF Truthy(nodeType) THEN nodeType ELSE Str("unknown"))

\* ExecutionPlan.js:22-24
getNodeId(node, depth, index) ==
    LET nodeType == Get(node, "Node Type")
    IN  ToString(depth) \o "-" \o ToString(index) \o "-"
          \o ToStr(IF Truthy(nodeType) THEN nodeType ELSE Str("unknown"))

\* A children test that needs more than one child.
HasChildren_MoreThanOne(node) ==
    LET plans == Get(node, "Plans")
    IN  /\ Truthy(plans)
        /\ Length(plans).t = "number"
        /\ Length(plans).v > 1

\* node['Plans'] && node['Plans'].length > 0, as a condition
HasChildren(node) ==
    LET plans == Get(node, "Plans")
    IN  /\ Truthy(plans)
        /\ Length(plans).t = "number"
        /\ Length(plans).v > 0

\* A label with no default for a missing node type.
NodeLabel_NoDefault(node) == Get(node, "Node Type")

\* node['Node Type'] || 'Unknown', ExecutionPlan.js:283
NodeLabel(node) ==
    LET nodeType == Get(node, "Node Type")
    IN  IF Truthy(nodeType) THEN nodeType ELSE Str("Unknown")

\* The element TreeNode returns for one node (ExecutionPlan.js:255-358), with
\* the elements of the nested operations when the node is expanded.
RECURSIVE TreeNode(_, _, _, _, _)

\* A TreeNode that renders the nested operations of a node whether or not
\* the node is expanded.
TreeNode_ChildrenAlways(node, depth, index, expanded, details) ==
    LET nodeId           == getNodeId(node, depth, index)
        secondaryMetrics == getSecondaryMetrics(node)
        plans            == Get(node, "Plans")
    IN  [nodeId           |-> nodeId,
         depth            |-> depth,
         toggleButton     |-> HasChildren(node),
         isExpanded       |-> nodeId \in expanded,
         color            |-> getNodeTypeColor(Get(node, "Node Type")),
         label            |-> NodeLabel(node),
         primaryMetrics   |-> getPrimaryMetrics(node),
         detailsButton    |-> Len(secondaryMetrics) > 0,
         secondaryCount   |-> Len(secondaryMetrics),
         secondaryMetrics |-> IF details /\ Len(secondaryMetrics) > 0
                              THEN secondaryMetrics ELSE <<>>,
         children         |-> IF HasChildren(node)
                              THEN [i \in 1..Len(plans.v) |->
                                      TreeNode(plans.v[i], depth + 1, i - 1, expanded, details)]
                              ELSE <<>>]

TreeNode(node, depth, index, expanded, details) ==
    LET nodeId           == getNodeId(node, depth, index)
        isExpanded       == nodeId \in expanded
        hasChildren      == HasChildren(node)
        primaryMetrics   == getPrimaryMetrics(node)
        secondaryMetrics == getSecondaryMetrics(node)
        plans            == Get(node, "Plans")
    IN  [nodeId           |-> nodeId,
         depth            |-> depth,
         toggleButton     |-> hasChildren,
         isExpanded       |-> isExpanded,
         color            |-> getNodeTypeColor(Get(node, "Node Type")),
         label            |-> NodeLabel(node),
         primaryMetrics   |-> primaryMetrics,
         detailsButton    |-> Len(secondaryMetrics) > 0,
         secondaryCount   |-> Len(secondaryMetrics),
         secondaryMetrics |-> IF details /\ Len(secondaryMetrics) > 0
                              THEN secondaryMetrics ELSE <<>>,
         children         |-> IF hasChildren /\ isExpanded
                              THEN [i \in 1..Len(plans.v) |->
                                      TreeNode(plans.v[i], depth + 1, i - 1, expanded, details)]
                              ELSE <<>>]

\* The element renderPlanNode returns for one node in the variant of the
\* component that has no expand/collapse state (LLMMetrics.js:297-356):
\* the nested plans are always rendered.
RECURSIVE renderPlanNode(_, _, _)
renderPlanNode(node, depth, details) ==
    LET primaryMetrics   == getPrimaryMetrics(node)
        secondaryMetrics == getSecondaryMetrics(node)
        plans            == Get(node, "Plans")
    IN  [depth            |-> depth,
         primaryMetrics   |-> primaryMetrics,
         detailsButton    |-> Len(secondaryMetrics) > 0,
         secondaryCount   |-> Len(secondaryMetrics),
         secondaryMetrics |-> IF details /\ Len(secondaryMetrics) > 0
                              THEN secondaryMetrics ELSE <<>>,
         children         |-> IF HasChildren(node)
                              THEN [i \in 1..Len(plans.v) |->
                                      renderPlanNode(plans.v[i], depth + 1, details)]
                              ELSE <<>>]

\* A value React cannot render as a child: a plain object, alone or in an array.
InvalidChild(value) ==
    \/ value.t = "object"
    \/ value.t = "array" /\ \E i \in 1..Len(value.v) : value.v[i].t = "object"

\* Whether rendering TreeNode for this node raises an exception: a property
\* read on null or undefined, .map on a 'Plans' that is no array, or a value
\* React refuses to render.
RECURSIVE TreeNodeThrows(_, _, _, _, _)
TreeNodeThrows(node, depth, index, expanded, details) ==
    \/ node.t \in {"undefined", "null"}
    \/ LET plans == Get(node, "Plans")
           prim  == getPrimaryMetrics(node)
           sec   == getSecondaryMetrics(node)
       IN  \/ InvalidChild(NodeLabel(node))
           \/ \E i \in 1..Len(prim) : InvalidChild(prim[i].value)
           \/ details /\ \E i \in 1..Len(sec) : InvalidChild(sec[i].value)
           \/ /\ HasChildren(node)
              /\ getNodeId(node, depth, index) \in expanded
              /\ \/ plans.t # "array"
                 \/ \E i \in 1..Len(plans.v) :
                        TreeNodeThrows(plans.v[i], depth + 1, i - 1, expanded, details)

Crashed == [t |-> "crashed", v |-> 0]

\* A component with no test of its plan before the tree is rendered.
ExecutionPlan_NoPlanTest(p, expanded, details) ==
    IF TreeNodeThrows(p, 0, 0, expanded, details) THEN Crashed
    ELSE [t |-> "card", v |-> TreeNode(p, 0, 0, expanded, details)]

\* One render pass of the component (ExecutionPlan.js:4-8, 360-362, 384-410):
\* nothing for a falsy plan, else the card with the two buttons and the tree.
ExecutionPlan(p, expanded, details) ==
    IF ~Truthy(p) THEN Null
    ELSE IF TreeNodeThrows(p, 0, 0, expanded, details) THEN Crashed
    ELSE [t |-> "card", v |-> TreeNode(p, 0, 0, expanded, details)]

\* The elements of a rendered tree in document order.
RECURSIVE Flatten(_)
RECURSIVE FlattenAll(_)
Flatten(el) == <<el>> \o FlattenAll(el.children)
FlattenAll(els) ==
    IF Len(els) = 0 THEN <<>> ELSE Flatten(els[1]) \o FlattenAll(Tail(els))

Rendered == IF view.t = "card" THEN Flatten(view.v) ELSE <<>>

----------------------------------------------------------------------------
(* The expand/collapse controller *)

\* A toggle that only ever adds the identifier.
NewExpandedNodes_AddOnly(expanded, nodeId) == expanded \cup {nodeId}

\* A toggle whose collapse empties the set.
NewExpandedNodes_CollapseForgets(expanded, nodeId) ==
    IF nodeId \in expanded THEN {} ELSE expanded \cup {nodeId}

\* ExecutionPlan.js:12-17: the copy of the set with nodeId flipped.
NewExpandedNodes(expanded, nodeId) ==
    IF nodeId \in expanded THEN expanded \ {nodeId} ELSE expanded \cup {nodeId}

\* ExecutionPlan.js:367-374: the identifiers in the order allNodeIds.add
\* receives them.
RECURSIVE collectNodeIds(_, _, _)
RECURSIVE collectSubPlans(_, _, _)

\* A collection pass that stops at the children of the node it is called on.
collectNodeIds_Shallow(node, depth, index) ==
    <<getNodeId(node, depth, index)>>
      \o (IF Truthy(Get(node, "Plans")) /\ depth = 0
          THEN collectSubPlans(Get(node, "Plans").v, depth + 1, 0)
          ELSE <<>>)

\* A collection pass that adds a node after its children.
collectNodeIds_PostOrder(node, depth, index) ==
    (IF Truthy(Get(node, "Plans"))
     THEN collectSubPlans(Get(node, "Plans").v, depth + 1, 0)
     ELSE <<>>)
      \o <<getNodeId(node, depth, index)>>

collectNodeIds(node, depth, index) ==
    <<getNodeId(node, depth, index)>>
      \o (IF Truthy(Get(node, "Plans"))
          THEN collectSubPlans(Get(node, "Plans").v, depth + 1, 0)
          ELSE <<>>)
collectSubPlans(subPlans, depth, subIndex) ==
    IF Len(subPlans) = 0 THEN <<>>
    ELSE collectNodeIds(subPlans[1], depth, subIndex)
           \o collectSubPlans(Tail(subPlans), depth, subIndex + 1)

\* Whether collectNodeIds raises an exception on this node.
RECURSIVE CollectThrows(_)
CollectThrows(node) ==
    \/ node.t \in {"undefined", "null"}
    \/ LET plans == Get(node, "Plans")
       IN  /\ Truthy(plans)
           /\ \/ plans.t # "array"
              \/ \E i \in 1..Len(plans.v) : CollectThrows(plans.v[i])

Range(seq) == {seq[i] : i \in 1..Len(seq)}

\* A pass over the document that consumes the children of the root as it
\* visits them.
PlanAfterPass_ChildrenConsumed(p) ==
    IF p.t = "object" THEN Obj(SelectSeq(p.v, LAMBDA e : e.k # "Plans")) ELSE p

\* The document after a handler and the render pass that follows it: the
\* code reads it with Object.entries, filter, map, join and forEach, takes
\* node[key] and builds new arrays and a new Set; nothing assigns to it.
PlanAfterPass(p) == p

\* The state after a handler set the two pieces of state and React rendered
\* again; an exception in the render pass unmounts the component.
Rerender(expanded, details) ==
    /\ expandedNodes' = expanded
    /\ showDetails' = details
    /\ view' = ExecutionPlan(plan, expanded, details)
    /\ failed' = IF view'.t = "crashed" THEN "render" ELSE failed
    /\ plan' = PlanAfterPass(plan)
    /\ UNCHANGED appVars

\* onClick of the chevron of a rendered node that has children
toggleNode(nodeId) ==
    /\ \E i \in 1..Len(Rendered) :
          Rendered[i].toggleButton /\ Rendered[i].nodeId = nodeId
    /\ Rerender(NewExpandedNodes(expandedNodes, nodeId), showDetails)

\* onClick of "expand all", ExecutionPlan.js:365-377
expandAll ==
    /\ view.t = "card"
    /\ IF CollectThrows(plan)
       THEN failed' = "handler"
              /\ UNCHANGED <<plan, showDetails, expandedNodes, view, appVars>>
       ELSE Rerender(Range(collectNodeIds(plan, 0, 0)), showDetails)

\* A "collapse all" that also hides the secondary fields.
collapseAll_HidesDetails ==
    /\ view.t = "card"
    /\ Rerender({}, FALSE)

\* onClick of "collapse all", ExecutionPlan.js:380-382
collapseAll ==
    /\ view.t = "card"
    /\ Rerender({}, showDetails)

\* onClick of the details button of a rendered node that has secondary fields
setShowDetails ==
    /\ \E i \in 1..Len(Rendered) : Rendered[i].detailsButton
    /\ Rerender(expandedNodes, ~showDetails)

----------------------------------------------------------------------------
(* The plan documents the viewer is given *)

MaxNodes  == 4   \* plan trees have at most this many nodes
MaxFields == 3   \* a single-node document has at most this many fields

\* Field lists of the nodes of the generated trees: a scan of a relation
\* with a long filter text, and a node with no 'Node Type'.
SeqScanFields ==
    <<Entry("Node Type", Str("Seq Scan")), Entry("Relation Name", Str("orders")),
      Entry("Filter", Str("(total_amount > 100.00)"))>>
UntypedFields ==
    <<Entry("Startup Cost", Num(0)), Entry("Alias", Null)>>

TreeFields == {SeqScanFields, UntypedFields}

\* The plan trees with exactly n nodes, and the child lists with n nodes in
\* all; a node with children carries them under 'Plans', a leaf has no 'Plans'.
RECURSIVE TreesOfSize(_)
RECURSIVE ForestsOfSize(_)
TreesOfSize(n) ==
    {Obj(IF Len(f) = 0 THEN fs ELSE fs \o <<Entry("Plans", Arr(f))>>) :
        fs \in TreeFields, f \in ForestsOfSize(n - 1)}
ForestsOfSize(n) ==
    IF n = 0 THEN {<<>>}
    ELSE UNION {{<<t>> \o f : t \in TreesOfSize(k), f \in ForestsOfSize(n - k)} :
                  k \in 1..n}

PlanTrees == UNION {TreesOfSize(n) : n \in 1..MaxNodes}

\* The values a field of a single-node document takes: the kinds of value a
\* JSON document can carry, null included, on primary and secondary keys, a
\* key that fieldNames does not know, and 'Plans' null, empty and with one
\* child.
FieldValues(key) ==
    CASE key = "Node Type"       -> {Str("Hash Join"), Null}
      [] key = "Total Cost"      -> {Num(7), Bool(TRUE), Null}
      [] key = "Parallel Aware"  -> {Bool(TRUE), Bool(FALSE), Null}
      [] key = "Sort Key"        -> {Arr(<<Str("o.id"), Str("o.created_at DESC")>>)}
      [] key = "Workers Planned" -> {Num(2), Null}
      [] OTHER                   -> {Null, Arr(<<>>), Arr(<<Obj(SeqScanFields)>>)}

\* The keys of a single-node document, in the order they are written in it.
FieldKeyOrder ==
    <<"Total Cost", "Parallel Aware", "Node Type", "Sort Key", "Plans",
      "Workers Planned">>

FieldKeys == {FieldKeyOrder[i] : i \in 1..Len(FieldKeyOrder)}

\* The entry lists of n entries whose keys are taken from position i on of
\* FieldKeyOrder, in that order.
RECURSIVE EntryLists(_, _)
EntryLists(i, n) ==
    IF n = 0 THEN {<<>>}
    ELSE IF i > Len(FieldKeyOrder) THEN {}
    ELSE EntryLists(i + 1, n)
           \cup {<<Entry(FieldKeyOrder[i], val)>> \o rest :
                   val \in FieldValues(FieldKeyOrder[i]), rest \in EntryLists(i + 1, n - 1)}

Reverse(seq) == [i \in 1..Len(seq) |-> seq[Len(seq) + 1 - i]]

\* The single-node documents: up to MaxFields fields, written in the order of
\* FieldKeyOrder or in the opposite order.
SingleNodes ==
    UNION {{Obj(es), Obj(Reverse(es))} :
             es \in UNION {EntryLists(1, n) : n \in 0..MaxFields}}

\* Two plans in which nodes of different parents sit at the same depth and
\* sibling index: in the first the first children of the two nodes below
\* the root are both scans with a child; in the second one of them has no
\* 'Node Type' and the other has the type "unknown".
InnerNode(fields, children) == Obj(fields \o <<Entry("Plans", Arr(children))>>)
SharedIdPlan ==
    InnerNode(SeqScanFields,
              <<InnerNode(SeqScanFields, <<InnerNode(SeqScanFields, <<Obj(SeqScanFields)>>)>>),
                InnerNode(UntypedFields, <<InnerNode(SeqScanFields, <<Obj(SeqScanFields)>>)>>)>>)
UnknownTypePlan ==
    InnerNode(SeqScanFields,
              <<InnerNode(SeqScanFields, <<InnerNode(UntypedFields, <<Obj(SeqScanFields)>>)>>),
                InnerNode(UntypedFields,
                          <<InnerNode(<<Entry("Node Type", Str("unknown"))>>,
                                      <<Obj(SeqScanFields)>>)>>)>>)

Plans == PlanTrees \cup SingleNodes \cup {SharedIdPlan, UnknownTypePlan}

----------------------------------------------------------------------------
(* The component mounted on a plan, and the user's clicks *)

\* The state of ModelSelector as useState initialises it.
SelectorAtRest ==
    [currentModel |-> Null, isOpen |-> FALSE, isLoading |-> FALSE, error |-> Null]

\* The state of App and of the components around the viewer as useState
\* initialises it (App.js:14-21), with no analysis requested.
AppAtRest ==
    /\ query = ""
    /\ analysis = Null
    /\ isLoading = FALSE
    /\ error = Null
    /\ examples = <<>>
    /\ activeTab = "query"
    /\ currentModel = Null
    /\ selectedDatabase = Null
    /\ showExamples = FALSE
    /\ expandedItems = {}
    /\ models = <<>>
    /\ requests = <<>>
    /\ overtaken = FALSE
    /\ switches = <<>>
    /\ profiles = <<>>
    /\ deletes = <<>>
    /\ deleted = {}

\* The viewer on its own, mounted on a plan document.
Init ==
    /\ plan \in Plans
    /\ showDetails = FALSE
    /\ expandedNodes = {}
    /\ view = ExecutionPlan(plan, {}, FALSE)
    /\ failed = IF view.t = "crashed" THEN "render" ELSE "none"
    /\ AppAtRest
    /\ selector = SelectorAtRest
    /\ loads = {}

Next ==
    \/ \E nodeId \in {Rendered[i].nodeId : i \in 1..Len(Rendered)} : toggleNode(nodeId)
    \/ expandAll
    \/ collapseAll
    \/ setShowDetails

Spec == Init /\ [][Next]_vars

----------------------------------------------------------------------------
(* The viewer on documents that are no plan trees *)

MaxBadChildren == 2   \* a malformed 'Plans' array has at most this many elements

\* Values of 'Plans' that are truthy and no array.
BadPlansValues == {Str("x"), Num(5), Bool(TRUE), Obj(<<>>)}

\* Elements of a 'Plans' array: null, a number, a string, a well-formed leaf,
\* and a node whose own 'Plans' is a string.
BadChildren ==
    {Null, Num(5), Str("x"), Obj(SeqScanFields),
     Obj(UntypedFields \o <<Entry("Plans", Str("x"))>>)}

RECURSIVE BadChildLists(_)
BadChildLists(n) ==
    IF n = 0 THEN {<<>>}
    ELSE {<<c>> \o cs : c \in BadChildren, cs \in BadChildLists(n - 1)}

\* Documents that are no object, nodes whose 'Plans' is no array, and nodes
\* whose 'Plans' array holds elements that are no node.
MalformedPlans ==
    {Num(5), Bool(TRUE), Str("x"), Arr(<<>>), Arr(<<Obj(SeqScanFields)>>)}
      \cup {Obj(fs \o <<Entry("Plans", bad)>>) : fs \in TreeFields, bad \in BadPlansValues}
      \cup {Obj(fs \o <<Entry("Plans", Arr(cs))>>) :
               fs \in TreeFields,
               cs \in UNION {BadChildLists(n) : n \in 1..MaxBadChildren}}

InitMalformed ==
    /\ plan \in MalformedPlans
    /\ showDetails = FALSE
    /\ expandedNodes = {}
    /\ view = ExecutionPlan(plan, {}, FALSE)
    /\ failed = IF view.t = "crashed" THEN "render" ELSE "none"
    /\ AppAtRest
    /\ selector = SelectorAtRest
    /\ loads = {}

SpecMalformed == InitMalformed /\ [][Next]_vars

----------------------------------------------------------------------------
(* Vocabulary of the properties: the nodes of the raw document by path *)

\* The child list of a raw node: the elements of 'Plans' when it is an array.
ChildrenOf(node) ==
    IF Get(node, "Plans").t = "array" THEN Get(node, "Plans").v ELSE <<>>

\* The paths of the nodes of a document: <<>> is the root, p \o <<i>> the
\* i-th child (counted from 1) of the node at p.
RECURSIVE Paths(_)
Paths(node) ==
    {<<>>} \cup UNION {{<<i>> \o q : q \in Paths(ChildrenOf(node)[i])} :
                         i \in 1..Len(ChildrenOf(node))}

RECURSIVE NodeAt(_, _)
NodeAt(node, path) ==
    IF Len(path) = 0 THEN node ELSE NodeAt(ChildrenOf(node)[path[1]], Tail(path))

\* The raw nodes of the current plan.
RawNodes == {NodeAt(plan, path) : path \in Paths(plan)}

\* The keys a raw node carries.
KeysOf(node) == {node.v[i].k : i \in 1..Len(node.v)}

\* A field key appears in a list of metric cards when a card has its title.
Shows(metrics, key) == \E i \in 1..Len(metrics) : metrics[i].title = FieldTitle(key)
InPrimary(node, key) == Shows(getPrimaryMetrics(node), key)
InSecondary(node, key) == Shows(getSecondaryMetrics(node), key)

----------------------------------------------------------------------------
(* C1 *)

\* C1 (as stated): every field key present in a raw node other than 'Plans',
\* keys with a null value included, appears in exactly one of the outputs of
\* getPrimaryMetrics and getSecondaryMetrics.
C1_EveryKeyInExactlyOne ==
    \A node \in RawNodes : \A key \in KeysOf(node) \ {"Plans"} :
        InPrimary(node, key) # InSecondary(node, key)

\* C1 (amended): every field key other than 'Plans' present with a value
\* that is not null appears in exactly one of the two outputs, never in both
\* and never in neither; a key whose value is null appears in neither.
C1_NonNullKeyInExactlyOne ==
    \A node \in RawNodes : \A key \in KeysOf(node) \ {"Plans"} :
        IF Get(node, key).t = "null"
        THEN ~InPrimary(node, key) /\ ~InSecondary(node, key)
        ELSE InPrimary(node, key) # InSecondary(node, key)

\* A rendered node with a primary card, a secondary card on display and a
\* null field.
C1_Witness ==
    /\ showDetails
    /\ \E i \in 1..Len(Rendered) :
          /\ Len(Rendered[i].primaryMetrics) > 0
          /\ Len(Rendered[i].secondaryMetrics) > 0
    /\ \E key \in KeysOf(plan) \ {"Plans"} :
          /\ Get(plan, key).t = "null"
          /\ \E other \in KeysOf(plan) : InPrimary(plan, other)
          /\ \E other \in KeysOf(plan) : InSecondary(plan, other)

----------------------------------------------------------------------------
(* C2 *)

PrimaryKeys == {"Node Type", "Total Cost", "Plan Rows", "Startup Cost"}

\* C2: getPrimaryMetrics returns at most 4 entries; every entry is the card
\* of one of the keys 'Node Type', 'Total Cost', 'Plan Rows', 'Startup Cost'
\* and carries the raw value of that key unchanged; every such key present
\* with a non-null value has exactly one entry, a key absent or null has none.
C2_PrimaryMetrics ==
    \A node \in RawNodes :
        LET prim == getPrimaryMetrics(node)
        IN  /\ Len(prim) <= 4
            /\ \A i \in 1..Len(prim) : \E key \in PrimaryKeys :
                  /\ prim[i].title = FieldTitle(key)
                  /\ prim[i].value = Get(node, key)
            /\ \A key \in PrimaryKeys :
                  Cardinality({i \in 1..Len(prim) : prim[i].title = FieldTitle(key)})
                    = IF Get(node, key).t \in {"undefined", "null"} THEN 0 ELSE 1

\* A rendered root with two primary cards, one of them carrying a raw boolean.
C2_Witness ==
    /\ view.t = "card"
    /\ Len(view.v.primaryMetrics) >= 2
    /\ \E i \in 1..Len(view.v.primaryMetrics) : view.v.primaryMetrics[i].value.t = "boolean"

----------------------------------------------------------------------------
(* C3 *)

\* The nodeId of the node at a path: its depth is the length of the path, its
\* index the position among its siblings counted from 0.
IdOfPath(path) ==
    getNodeId(NodeAt(plan, path), Len(path),
              IF Len(path) = 0 THEN 0 ELSE path[Len(path)] - 1)

\* C3: immediately after expandAll the expanded set contains the nodeId of
\* every node of the current plan tree, and immediately after collapseAll
\* (in particular one that follows expandAll) it contains none of them.
C3_ExpandAllThenCollapseAll ==
    [][/\ expandAll => \A path \in Paths(plan) : IdOfPath(path) \in expandedNodes'
       /\ collapseAll => /\ \A path \in Paths(plan) : IdOfPath(path) \notin expandedNodes'
                         /\ expandedNodes' = {}]_vars

\* After expandAll on a tree with grandchildren: the identifier of every
\* node, leaves included, is in the set.
C3_Witness ==
    /\ \E path \in Paths(plan) : Len(path) >= 2
    /\ \A path \in Paths(plan) : IdOfPath(path) \in expandedNodes

----------------------------------------------------------------------------
(* C4 *)

\* C4: toggleNode(nodeId) flips the membership of nodeId in the expanded set
\* (removes a member, adds a non-member), and a second toggleNode(nodeId)
\* right after it, which the rendered tree still offers, restores the set.
C4_ToggleFlips ==
    [][\A nodeId \in {Rendered[i].nodeId : i \in 1..Len(Rendered)} :
          toggleNode(nodeId) =>
            /\ (nodeId \in expandedNodes') # (nodeId \in expandedNodes)
            /\ NewExpandedNodes(expandedNodes', nodeId) = expandedNodes
            /\ \E i \in 1..Len(Rendered') :
                  Rendered'[i].toggleButton /\ Rendered'[i].nodeId = nodeId]_vars

\* A node below the root was toggled open and its child is on display, and
\* an identifier of a node that is not on display is in the set as well.
C4_Witness ==
    /\ \E i \in 1..Len(Rendered) : Rendered[i].depth = 2
    /\ \E path \in Paths(plan) : /\ Len(path) = 1
                                 /\ IdOfPath(path) \in expandedNodes
                                 /\ Len(ChildrenOf(NodeAt(plan, path))) > 0
    /\ \E path \in Paths(plan) : IdOfPath(path) \notin expandedNodes

----------------------------------------------------------------------------
(* C5 *)

\* Pre-order on paths: a node before its descendants, siblings (and their
\* subtrees) in the order of 'Plans'.
PathBefore(p, q) ==
    \/ Len(p) < Len(q) /\ SubSeq(q, 1, Len(p)) = p
    \/ \E i \in 1..Len(p) :
          /\ i <= Len(q)
          /\ SubSeq(p, 1, i - 1) = SubSeq(q, 1, i - 1)
          /\ p[i] < q[i]

\* The place of a path in the pre-order traversal of the plan, from 1.
PreOrderRank(path) == 1 + Cardinality({q \in Paths(plan) : PathBefore(q, path)})

\* C5: expandAll is idempotent. From every reachable expanded set it leaves
\* exactly the identifiers of the nodes of the plan and a tree on display
\* with one element per node in pre-order, so a repeated expandAll changes
\* nothing; its collection pass visits the nodes in pre-order.
C5_ExpandAllIdempotent ==
    [][expandAll =>
         LET visited == collectNodeIds(plan, 0, 0)
         IN  /\ expandedNodes' = {IdOfPath(path) : path \in Paths(plan)}
             /\ Len(visited) = Cardinality(Paths(plan))
             /\ \A path \in Paths(plan) : visited[PreOrderRank(path)] = IdOfPath(path)
             /\ Len(Rendered') = Cardinality(Paths(plan))
             /\ \A path \in Paths(plan) :
                   Rendered'[PreOrderRank(path)].nodeId = IdOfPath(path)
             /\ (expandedNodes = {IdOfPath(path) : path \in Paths(plan)}
                   => UNCHANGED vars)]_vars

\* After expandAll on a tree where pre-order differs from level order: the
\* first child has a child and a later sibling, and all are on display.
C5_Witness ==
    /\ <<1, 1>> \in Paths(plan)
    /\ <<2>> \in Paths(plan)
    /\ expandedNodes = {IdOfPath(path) : path \in Paths(plan)}
    /\ Len(Rendered) = Cardinality(Paths(plan))

----------------------------------------------------------------------------
(* C7 *)

YesNo(value) == Str(IF value.v THEN "Da" ELSE "Net")

\* The cards of a node, primary and secondary, that show a key.
CardsFor(node, key) ==
    {getPrimaryMetrics(node)[i] :
        i \in {j \in 1..Len(getPrimaryMetrics(node)) :
                 getPrimaryMetrics(node)[j].title = FieldTitle(key)}}
    \cup {getSecondaryMetrics(node)[i] :
        i \in {j \in 1..Len(getSecondaryMetrics(node)) :
                 getSecondaryMetrics(node)[j].title = FieldTitle(key)}}

\* C7 (as stated): for every boolean-valued field of a node, primary or
\* secondary, the value on its card is the label for true or the label for
\* false, never the boolean.
C7_EveryBooleanLabelled ==
    \A node \in RawNodes : \A key \in KeysOf(node) \ {"Plans"} :
        Get(node, key).t = "boolean" =>
            \A card \in CardsFor(node, key) : card.value = YesNo(Get(node, key))

\* C7 (amended): for every boolean-valued field of a node other than the
\* four primary fields there is one card, a secondary one, and its value is
\* the label for true or the label for false, never the boolean, also on the
\* cards on display; a boolean in a primary field is passed through as it is.
C7_SecondaryBooleanLabelled ==
    /\ \A node \in RawNodes : \A key \in KeysOf(node) \ {"Plans"} :
          Get(node, key).t = "boolean" =>
              IF key \in PrimaryKeys
              THEN \A card \in CardsFor(node, key) : card.value = Get(node, key)
              ELSE /\ Cardinality(CardsFor(node, key)) = 1
                   /\ \A card \in CardsFor(node, key) :
                         card.value = YesNo(Get(node, key))
    /\ \A i \in 1..Len(Rendered) : \A j \in 1..Len(Rendered[i].secondaryMetrics) :
          Rendered[i].secondaryMetrics[j].value.t # "boolean"

\* The details are on display with a card for a false attribute, on a node
\* that also has a primary field.
C7_Witness ==
    /\ showDetails
    /\ view.t = "card"
    /\ Get(plan, "Parallel Aware") = Bool(FALSE)
    /\ \E j \in 1..Len(view.v.secondaryMetrics) :
          /\ view.v.secondaryMetrics[j].title = "Parallelnyi"
          /\ view.v.secondaryMetrics[j].value = Str("Net")
    /\ Len(view.v.primaryMetrics) > 0

----------------------------------------------------------------------------
(* C8 *)

\* Whether the element of the node at a path is part of a rendered tree, and
\* that element.
RECURSIVE IsRenderedPath(_, _)
IsRenderedPath(el, path) ==
    \/ Len(path) = 0
    \/ /\ path[1] <= Len(el.children)
       /\ IsRenderedPath(el.children[path[1]], Tail(path))

RECURSIVE ViewAt(_, _)
ViewAt(el, path) ==
    IF Len(path) = 0 THEN el ELSE ViewAt(el.children[path[1]], Tail(path))

\* The plan of the example: a hash join over one sequential scan of "orders".
HashJoinOrders ==
    Obj(<<Entry("Node Type", Str("Hash Join")),
          Entry("Plans", Arr(<<Obj(SeqScanFields)>>))>>)

\* C8: with every node expanded the tree on display has exactly one element
\* per raw node, at the same path (so the children are in the order of
\* 'Plans'), with as many children as the raw node; for the hash join over a
\* scan of "orders" that is 2 elements, 1 child of the root, and the
\* secondary fields of the child hold the card of 'Relation Name' with the
\* value "orders".
C8_OneElementPerNode ==
    /\ (view.t = "card" /\ \A path \in Paths(plan) : IdOfPath(path) \in expandedNodes) =>
          /\ Len(Rendered) = Cardinality(Paths(plan))
          /\ \A path \in Paths(plan) :
                /\ IsRenderedPath(view.v, path)
                /\ ViewAt(view.v, path).nodeId = IdOfPath(path)
                /\ ViewAt(view.v, path).depth = Len(path)
                /\ ViewAt(view.v, path).label = NodeLabel(NodeAt(plan, path))
                /\ Len(ViewAt(view.v, path).children) = Len(ChildrenOf(NodeAt(plan, path)))
    /\ (plan = HashJoinOrders /\ "0-0-Hash Join" \in expandedNodes) =>
          /\ Len(Rendered) = 2
          /\ Len(view.v.children) = 1
          /\ view.v.children[1].label = Str("Seq Scan")
          /\ \E j \in 1..Len(getSecondaryMetrics(ChildrenOf(plan)[1])) :
                /\ getSecondaryMetrics(ChildrenOf(plan)[1])[j].title = FieldTitle("Relation Name")
                /\ getSecondaryMetrics(ChildrenOf(plan)[1])[j].value = Str("orders")
          /\ showDetails =>
                \E j \in 1..Len(view.v.children[1].secondaryMetrics) :
                    /\ view.v.children[1].secondaryMetrics[j].title = "Nazvanie tablitsy"
                    /\ view.v.children[1].secondaryMetrics[j].value = Str("orders")

\* The example plan, expanded, with the details on display.
C8_Witness ==
    /\ plan = HashJoinOrders
    /\ "0-0-Hash Join" \in expandedNodes
    /\ showDetails
    /\ Len(Rendered) = 2

----------------------------------------------------------------------------
(* C9 *)

LacksNodeType(node) == Get(node, "Node Type").t \in {"undefined", "null"}

SiblingIndex(path) == IF Len(path) = 0 THEN 0 ELSE path[Len(path)] - 1

\* C9 (as stated): a node with no 'Node Type' is treated as "Unknown" both
\* in its label and in its nodeId, and nothing fails.
C9_UnknownInLabelAndId ==
    /\ failed = "none"
    /\ view.t = "card"
    /\ \A path \in Paths(plan) :
          (LacksNodeType(NodeAt(plan, path)) /\ IsRenderedPath(view.v, path)) =>
              /\ ViewAt(view.v, path).label = Str("Unknown")
              /\ ViewAt(view.v, path).nodeId =
                    ToString(Len(path)) \o "-" \o ToString(SiblingIndex(path)) \o "-Unknown"

\* C9 (amended): a node with no 'Node Type' has the label "Unknown" and a
\* nodeId whose type part is the lower-case "unknown", the same in the tree
\* on display and in the pass of expandAll; rendering, toggle and expandAll
\* do not fail.
C9_UnknownLabelLowerCaseId ==
    /\ failed = "none"
    /\ view.t = "card"
    /\ \A path \in Paths(plan) :
          LacksNodeType(NodeAt(plan, path)) =>
              /\ collectNodeIds(plan, 0, 0)[PreOrderRank(path)] =
                    ToString(Len(path)) \o "-" \o ToString(SiblingIndex(path)) \o "-unknown"
              /\ IsRenderedPath(view.v, path) =>
                    /\ ViewAt(view.v, path).label = Str("Unknown")
                    /\ ViewAt(view.v, path).nodeId =
                          ToString(Len(path)) \o "-" \o ToString(SiblingIndex(path)) \o "-unknown"

\* A node with no 'Node Type' below the root was toggled open, not every
\* node is expanded, and its child, also without a type, is on display.
C9_Witness ==
    /\ failed = "none"
    /\ view.t = "card"
    /\ \E path \in Paths(plan) :
          /\ Len(path) = 1
          /\ LacksNodeType(NodeAt(plan, path))
          /\ IdOfPath(path) \in expandedNodes
          /\ (path \o <<1>>) \in Paths(plan)
          /\ IsRenderedPath(view.v, path \o <<1>>)
          /\ LacksNodeType(NodeAt(plan, path \o <<1>>))
          /\ IdOfPath(path \o <<1>>) \notin expandedNodes

----------------------------------------------------------------------------
(* C10 *)

\* The document of a node with the entry of one key taken out.
Without(node, key) == Obj(SelectSeq(node.v, LAMBDA e : e.k # key))

\* C10: a field that is missing on a node (absent or null) has no card among
\* the primary nor among the secondary fields, the cards of the other fields
\* and the whole element of the node are what they are for the document
\* without that field, and no error is raised.
C10_MissingFieldOmitted ==
    /\ failed = "none"
    /\ view.t = "card"
    /\ \A node \in RawNodes :
          /\ \A key \in KeysOf(node) \cup PrimaryKeys \cup FieldKeys :
                Get(node, key).t \in {"undefined", "null"} =>
                    ~InPrimary(node, key) /\ ~InSecondary(node, key)
          /\ \A key \in KeysOf(node) :
                Get(node, key).t = "null" =>
                    /\ getPrimaryMetrics(Without(node, key)) = getPrimaryMetrics(node)
                    /\ getSecondaryMetrics(Without(node, key)) = getSecondaryMetrics(node)
                    /\ TreeNode(Without(node, key), 0, 0, expandedNodes, showDetails)
                          = TreeNode(node, 0, 0, expandedNodes, showDetails)

\* A node with a null primary field and a null secondary field, the cards of
\* its other fields on display.
C10_Witness ==
    /\ showDetails
    /\ view.t = "card"
    /\ Get(plan, "Total Cost") = Null
    /\ Get(plan, "Parallel Aware") = Null
    /\ Len(view.v.primaryMetrics) + Len(view.v.secondaryMetrics) > 0

----------------------------------------------------------------------------
(* The application around the viewer: what the backend answers *)

\* s.trim(), for the blanks a query is typed with
RECURSIVE TrimStart(_)
TrimStart(s) ==
    IF Len(s) > 0 /\ SubSeq(s, 1, 1) = " " THEN TrimStart(SubSeq(s, 2, Len(s))) ELSE s
RECURSIVE TrimEnd(_)
TrimEnd(s) ==
    IF Len(s) > 0 /\ SubSeq(s, Len(s), Len(s)) = " "
    THEN TrimEnd(SubSeq(s, 1, Len(s) - 1)) ELSE s
Trim(s) == TrimEnd(TrimStart(s))

\* One recommendation object of a response.
Recommendation(type, priority, title, speedup) ==
    Obj(<<Entry("type", Str(type)), Entry("priority", Str(priority)),
          Entry("title", Str(title)), Entry("description", Str("description of " \o title)),
          Entry("potential_improvement", Str("improvement by " \o title)),
          Entry("implementation", Str("implementation of " \o title)),
          Entry("estimated_speedup", speedup)>>)

AddIndex     == Recommendation("index", "low", "Add index", Num(30))
RewriteQuery == Recommendation("query_rewrite", "high", "Rewrite query", Null)
TuneConfig   == Recommendation("config", "medium", "Tune work_mem", Num(5))

\* The 'warnings' of a response, by their text.
SeqScanWarning   == Str("Warning: sequential scan on orders")
MissingTableError == Str("ERROR: relation does not exist")
StatisticsNote   == Str("statistics are out of date")

\* The plan of a response: a join over a scan.
JoinPlan ==
    Obj(<<Entry("Node Type", Str("Hash Join")), Entry("Total Cost", Num(7)),
          Entry("Join Type", Str("Inner")),
          Entry("Plans", Arr(<<Obj(SeqScanFields)>>))>>)

\* The 'resource_metrics' of a response.
EstimatedMetrics ==
    Obj(<<Entry("cpu_usage", Num(85)), Entry("memory_usage", Num(512)),
          Entry("io_operations", Num(20)), Entry("disk_reads", Num(12)),
          Entry("disk_writes", Num(0))>>)

\* response.data of a successful POST /analyze: the query sent, the
\* 'execution_plan' entry when there is one, the recommendations and the
\* warnings.
AnalysisResult(q, executionPlan, recommendations, warnings) ==
    Obj(<<Entry("query", Str(q)), Entry("rewritten_query", Null)>> \o executionPlan
          \o <<Entry("resource_metrics", EstimatedMetrics),
               Entry("recommendations", Arr(recommendations)),
               Entry("warnings", Arr(warnings)),
               Entry("analysis_timestamp", Str("2025-01-01T00:00:00"))>>)

\* What the backend answers for a query: with a plan, with plan_json null,
\* with 'execution_plan' null and with no 'execution_plan'; with
\* recommendations that are not in order of priority and that repeat an item,
\* with one and with none; with warnings that are not sorted and that repeat
\* one, and with none.
AnalysisResults(q) ==
    {AnalysisResult(q, <<Entry("execution_plan", Obj(<<Entry("plan_json", JoinPlan)>>))>>,
                    <<AddIndex, RewriteQuery, AddIndex>>,
                    <<SeqScanWarning, MissingTableError, StatisticsNote, MissingTableError>>),
     AnalysisResult(q, <<Entry("execution_plan", Obj(<<Entry("plan_json", Null)>>))>>,
                    <<>>, <<StatisticsNote, SeqScanWarning>>),
     AnalysisResult(q, <<Entry("execution_plan", Null)>>,
                    <<TuneConfig, RewriteQuery>>, <<MissingTableError>>),
     AnalysisResult(q, <<>>, <<TuneConfig>>, <<>>)}

\* What a failed POST /analyze is rejected with: an error with no response
\* (network), and responses with a detail, with an empty detail and with
\* no detail.
NoResponse == Obj(<<Entry("message", Str("Network Error"))>>)
ErrorWith(data) == Obj(<<Entry("response", Obj(<<Entry("data", data)>>))>>)
AnalyzeErrors ==
    {NoResponse,
     ErrorWith(Obj(<<Entry("detail", Str("Query analysis failed: syntax error"))>>)),
     ErrorWith(Obj(<<Entry("detail", Str(""))>>)),
     ErrorWith(Obj(<<>>))}

----------------------------------------------------------------------------
(* The components of the results tab *)

LowerLetters == "abcdefghijklmnopqrstuvwxyz"
UpperLetters == "ABCDEFGHIJKLMNOPQRSTUVWXYZ"

\* The character c with the letters of `from` replaced by those of `to`.
MapChar(c, from, to) ==
    IF \E i \in 1..Len(from) : SubSeq(from, i, i) = c
    THEN LET i == CHOOSE j \in 1..Len(from) : SubSeq(from, j, j) = c
         IN  SubSeq(to, i, i)
    ELSE c

RECURSIVE MapString(_, _, _)
MapString(s, from, to) ==
    IF Len(s) = 0 THEN ""
    ELSE MapChar(SubSeq(s, 1, 1), from, to) \o MapString(SubSeq(s, 2, Len(s)), from, to)

ToLowerCase(s) == MapString(s, UpperLetters, LowerLetters)
ToUpperCase(s) == MapString(s, LowerLetters, UpperLetters)

\* s.includes(sub)
StringIncludes(s, sub) ==
    \E i \in 1..(Len(s) - Len(sub) + 1) : SubSeq(s, i, i + Len(sub) - 1) = sub

\* getPriorityBadge of Recommendations
getPriorityBadge(priority) ==
    CASE priority = "high"   -> "badge badge-high"
      [] priority = "medium" -> "badge badge-medium"
      [] priority = "low"    -> "badge badge-low"
      [] OTHER               -> "badge bg-gray-100 text-gray-800"

\* getTypeIcon of Recommendations, the emoji by its name
getTypeIcon(type) ==
    LET t == ToLowerCase(type)
    IN  CASE t = "index"         -> "bar chart"
          [] t = "query_rewrite" -> "pencil"
          [] t = "config"        -> "gear"
          [] t = "structure"     -> "building"
          [] OTHER               -> "light bulb"

\* recommendations.filter(r => r.priority === priority).length
CountPriority(recommendations, priority) ==
    Len(SelectSeq(recommendations, LAMBDA r : Get(r, "priority") = Str(priority)))

\* One item of the list Recommendations renders: the header that is always
\* shown and the body shown when expandedItems[index] is true.
RecommendationItem(recommendation, index, expanded) ==
    LET speedup == Get(recommendation, "estimated_speedup")
    IN  [key           |-> index,
         icon          |-> getTypeIcon(Get(recommendation, "type").v),
         title         |-> Get(recommendation, "title"),
         badge         |-> getPriorityBadge(Get(recommendation, "priority").v),
         badgeText     |-> ToUpperCase(Get(recommendation, "priority").v),
         speedupBadge  |-> IF Truthy(speedup) THEN Str("+" \o ToString(speedup.v) \o "%")
                           ELSE Null,
         description   |-> Get(recommendation, "description"),
         isExpanded    |-> index \in expanded,
         body          |-> IF index \in expanded
                           THEN <<Get(recommendation, "potential_improvement"),
                                  Get(recommendation, "implementation"),
                                  Get(recommendation, "type")>>
                           ELSE <<>>]

\* A Recommendations component that lists the recommendations of high
\* priority before the others.
Recommendations_HighFirst(recommendations, expanded) ==
    IF ~Truthy(recommendations) \/ Length(recommendations) = Num(0)
    THEN [t |-> "placeholder", count |-> 0, items |-> <<>>,
          summary |-> [high |-> 0, medium |-> 0, low |-> 0]]
    ELSE LET sorted == SelectSeq(recommendations.v,
                                 LAMBDA r : Get(r, "priority") = Str("high"))
                         \o SelectSeq(recommendations.v,
                                      LAMBDA r : Get(r, "priority") # Str("high"))
         IN  [t       |-> "card",
              count   |-> Len(sorted),
              items   |-> [i \in 1..Len(sorted) |->
                             RecommendationItem(sorted[i], i - 1, expanded)],
              summary |-> [high   |-> CountPriority(sorted, "high"),
                           medium |-> CountPriority(sorted, "medium"),
                           low    |-> CountPriority(sorted, "low")]]

\* The Recommendations component: the placeholder card for no
\* recommendations, else the items in the order of the array and the
\* summary of the counts by priority.
Recommendations(recommendations, expanded) ==
    IF ~Truthy(recommendations) \/ Length(recommendations) = Num(0)
    THEN [t |-> "placeholder", count |-> 0, items |-> <<>>,
          summary |-> [high |-> 0, medium |-> 0, low |-> 0]]
    ELSE [t       |-> "card",
          count   |-> Len(recommendations.v),
          items   |-> [i \in 1..Len(recommendations.v) |->
                         RecommendationItem(recommendations.v[i], i - 1, expanded)],
          summary |-> [high   |-> CountPriority(recommendations.v, "high"),
                       medium |-> CountPriority(recommendations.v, "medium"),
                       low    |-> CountPriority(recommendations.v, "low")]]

\* getWarningColor of Warnings (getWarningIcon and getTextColor take the same
\* three branches); the Cyrillic words it also looks for are not ASCII and
\* occur in no warning here.
getWarningColor(warning) ==
    LET warningLower == ToLowerCase(warning)
    IN  IF StringIncludes(warningLower, "error") THEN "border-red-200 bg-red-50"
        ELSE IF StringIncludes(warningLower, "warning") THEN "border-yellow-200 bg-yellow-50"
        ELSE "border-blue-200 bg-blue-50"

\* The Warnings component: the placeholder card for no warnings, else one
\* item per element of the array, in its order.
Warnings(warnings) ==
    IF ~Truthy(warnings) \/ Length(warnings) = Num(0)
    THEN [t |-> "placeholder", count |-> 0, items |-> <<>>]
    ELSE [t     |-> "card",
          count |-> Len(warnings.v),
          items |-> [i \in 1..Len(warnings.v) |->
                       [key   |-> i - 1,
                        color |-> getWarningColor(warnings.v[i].v),
                        text  |-> warnings.v[i]]]]

\* getCpuColor, getMemoryColor and getIOColor of ResourceMetrics
UsageColor(usage, red, yellow) ==
    IF usage >= red THEN "text-red-600 bg-red-50"
    ELSE IF usage >= yellow THEN "text-yellow-600 bg-yellow-50"
    ELSE "text-green-600 bg-green-50"

\* The ResourceMetrics component: nothing without metrics, else the card of
\* the five estimates.
ResourceMetrics(resourceMetrics) ==
    IF ~Truthy(resourceMetrics) THEN Null
    ELSE [t |-> "card",
          v |-> [cpu_usage     |-> Get(resourceMetrics, "cpu_usage"),
                 cpuColor      |-> UsageColor(Get(resourceMetrics, "cpu_usage").v, 80, 60),
                 memory_usage  |-> Get(resourceMetrics, "memory_usage"),
                 memoryColor   |-> UsageColor(Get(resourceMetrics, "memory_usage").v, 1000, 500),
                 io_operations |-> Get(resourceMetrics, "io_operations"),
                 ioColor       |-> UsageColor(Get(resourceMetrics, "io_operations").v, 100, 50),
                 disk_reads    |-> Get(resourceMetrics, "disk_reads"),
                 disk_writes   |-> Get(resourceMetrics, "disk_writes")]]

\* The RewrittenQuery component: nothing without a rewritten query.
RewrittenQuery(rewrittenQuery, originalQuery) ==
    IF ~Truthy(rewrittenQuery) \/ Trim(rewrittenQuery.v) = "" THEN Null
    ELSE [t |-> "card", v |-> <<originalQuery, rewrittenQuery>>]

----------------------------------------------------------------------------
(* What App renders *)

\* An analyze button that is disabled while loading only.
AnalyzeDisabled_IgnoresBlank(q, loading) == loading

\* An analyze button that is disabled for a blank query only.
AnalyzeDisabled_IgnoresLoading(q, loading) == Trim(q) = ""

\* disabled={!query.trim() || isLoading} of the analyze button
AnalyzeDisabled(q, loading) == Trim(q) = "" \/ loading

\* The QueryEditor component: the three buttons of the header, the examples
\* panel, the textarea and the analyze button.
QueryEditor(q, loading, exs, show) ==
    [examplesButton |-> [disabled |-> loading],
     copyButton     |-> [disabled |-> Trim(q) = ""],
     clearButton    |-> [disabled |-> Trim(q) = "" \/ loading],
     examplesPanel  |-> IF show THEN [i \in 1..Len(exs) |-> Get(exs[i], "name")] ELSE <<>>,
     textarea       |-> [value |-> q, placeholder |-> "Vvedite SQL zapros dlya analiza...",
                         disabled |-> loading],
     analyzeButton  |-> [disabled |-> AnalyzeDisabled(q, loading),
                         text |-> IF loading THEN "Analiziruyu..."
                                  ELSE "Analizirovat zapros"]]

\* analysis.execution_plan?.plan_json, App.js:177
PlanProp(a) ==
    LET executionPlan == Get(a, "execution_plan")
    IN  IF executionPlan.t \in {"undefined", "null"} THEN Undefined
        ELSE Get(executionPlan, "plan_json")

\* activeTab === 'results' && analysis, App.js:168
ResultsShown(tab, a) == tab = "results" /\ Truthy(a)

\* The children of the results tab, App.js:168-226; planView is what the
\* mounted ExecutionPlan rendered.
ResultsTab(a, planView, expanded) ==
    [rewrittenQuery  |-> RewrittenQuery(Get(a, "rewritten_query"), Get(a, "query")),
     executionPlan   |-> planView,
     resourceMetrics |-> ResourceMetrics(Get(a, "resource_metrics")),
     recommendations |-> Recommendations(Get(a, "recommendations"), expanded),
     warnings        |-> Warnings(Get(a, "warnings")),
     info            |-> [queryLength     |-> Length(Get(a, "query")),
                          recommendations |-> Length(Get(a, "recommendations")),
                          warnings        |-> Length(Get(a, "warnings")),
                          rewritten       |-> IF Truthy(Get(a, "rewritten_query"))
                                                   /\ Trim(Get(a, "rewritten_query").v) # ""
                                              THEN "Da" ELSE "Net"]]

\* disabled: !analysis of the results entry of tabs, App.js:74-78
ResultsTabDisabled(a) == ~Truthy(a)

\* What App returns, App.js:80-253: the header, the tab bar, the error
\* banner and the content of the active tab; an exception in the render of
\* a child unmounts all of it, as no component catches it.
AppView ==
    IF view.t = "crashed" THEN Crashed ELSE
    [title       |-> "PostgreSQL Query Analyzer",
     tabs        |-> [query   |-> [disabled |-> FALSE],
                      results |-> [disabled |-> ResultsTabDisabled(analysis)],
                      health  |-> [disabled |-> FALSE]],
     errorBanner |-> IF Truthy(error) THEN error ELSE Null,
     queryTab    |-> IF activeTab = "query"
                     THEN [t |-> "tab",
                           v |-> [selectedProfile |-> selectedDatabase,
                                  queryEditor |-> QueryEditor(query, isLoading, examples,
                                                              showExamples)]]
                     ELSE Null,
     resultsTab  |-> IF ResultsShown(activeTab, analysis)
                     THEN [t |-> "tab", v |-> ResultsTab(analysis, view, expandedItems)]
                     ELSE Null,
     healthTab   |-> IF activeTab = "health" THEN [t |-> "tab", v |-> 0] ELSE Null]

----------------------------------------------------------------------------
(* The handlers of App and of the components it mounts *)

MaxRequests == 2   \* at most this many POST /analyze calls wait for a response

\* The messages of handleAnalyze, App.js:39 and :55, transliterated.
EmptyQueryMessage == "Pozhaluista, vvedite SQL zapros dlya analiza"
AnalyzeFallbackMessage ==
    "Proizoshla oshibka pri analize zaprosa. Proverte podklyuchenie k serveru."

\* What the user types into the textarea, what GET /examples and GET /models
\* answer, and the profile DatabaseProfiles lists.
TypedTexts == {"  ", "SELECT 1"}
ExampleList ==
    <<Obj(<<Entry("name", Str("Orders")), Entry("query", Str("SELECT * FROM orders")),
            Entry("description", Str("all orders"))>>)>>
ModelList ==
    <<Obj(<<Entry("name", Str("local")), Entry("model", Str("llama3")),
            Entry("is_current", Bool(TRUE))>>),
      Obj(<<Entry("name", Str("openai")), Entry("model", Str("gpt-4")),
            Entry("is_current", Bool(FALSE))>>)>>
\* response.data of GET /models, part_004:20-22
ModelsResponse == [models |-> ModelList, current_model |-> Str("local")]

\* The messages of ModelSelector, part_004:25 and :44, transliterated.
LoadModelsMessage == "Ne udalos zagruzit spisok modelej"
SwitchModelMessage == "Ne udalos pereklyuchit model"
Profile == Obj(<<Entry("id", Num(1)), Entry("name", Str("analytics"))>>)

\* x?.key
OptionalGet(x, key) == IF x.t \in {"undefined", "null"} THEN Undefined ELSE Get(x, key)

\* The body of the POST of analyzeQuery(query, selectedDatabase?.id),
\* api.js:39-44.
analyzeQuery(q, databaseProfileId) ==
    [query |-> q,
     database_profile_id |-> IF databaseProfileId.t = "undefined" THEN Null
                             ELSE databaseProfileId,
     database_url |-> Null]

\* error.response?.data?.detail || the fixed message, App.js:53-56
ErrorMessage(err) ==
    LET detail == OptionalGet(OptionalGet(Get(err, "response"), "data"), "detail")
    IN  IF Truthy(detail) THEN detail ELSE Str(AnalyzeFallbackMessage)

\* A submission that leaves the previous analysis in place.
ClearedAnalysis_Kept(previous) == previous

\* setAnalysis(null) of handleAnalyze, App.js:45
ClearedAnalysis(previous) == Null

\* The sequence without its i-th element.
RemoveAt(seq, i) == SubSeq(seq, 1, i - 1) \o SubSeq(seq, i + 1, Len(seq))

Unmounted == [t |-> "unmounted", v |-> 0]

\* A render in which ExecutionPlan and Recommendations keep their state
\* while they are not on display.
Reconcile_KeepsViewerState(show) ==
    /\ showExamples' = IF activeTab' = "query" /\ activeTab = "query" THEN show ELSE FALSE
    /\ IF ResultsShown(activeTab', analysis')
       THEN /\ plan' = PlanProp(analysis')
            /\ view' = ExecutionPlan(plan', expandedNodes, showDetails)
       ELSE /\ plan' = Undefined
            /\ view' = Unmounted
    /\ UNCHANGED <<showDetails, expandedNodes, expandedItems>>
    /\ failed' = IF view'.t = "crashed" THEN "render" ELSE failed

\* The render after App state changed: QueryEditor keeps showExamples (set to
\* show) while the query tab stays, the results tab mounts ExecutionPlan and
\* Recommendations with fresh state when it appears and drops them when it
\* goes.
Reconcile(show) ==
    /\ showExamples' = IF activeTab' = "query" /\ activeTab = "query" THEN show ELSE FALSE
    /\ IF ResultsShown(activeTab', analysis')
       THEN IF ResultsShown(activeTab, analysis)
            THEN /\ plan' = PlanProp(analysis')
                 /\ view' = IF plan' = plan THEN view
                            ELSE ExecutionPlan(plan', expandedNodes, showDetails)
                 /\ UNCHANGED <<showDetails, expandedNodes, expandedItems>>
            ELSE /\ plan' = PlanProp(analysis')
                 /\ view' = ExecutionPlan(plan', {}, FALSE)
                 /\ showDetails' = FALSE
                 /\ expandedNodes' = {}
                 /\ expandedItems' = {}
       ELSE /\ plan' = Undefined
            /\ view' = Unmounted
            /\ showDetails' = FALSE
            /\ expandedNodes' = {}
            /\ expandedItems' = {}
    /\ failed' = IF view'.t = "crashed" THEN "render" ELSE failed

\* loadExamples of the mount effect settling, App.js:24-34
loadExamples(ok) ==
    /\ "examples" \in loads
    /\ loads' = loads \ {"examples"}
    /\ examples' = IF ok THEN ExampleList ELSE examples
    /\ UNCHANGED <<query, analysis, isLoading, error, activeTab, currentModel,
                   selectedDatabase, models, requests>>
    /\ UNCHANGED <<overtaken, sideVars>>
    /\ Reconcile(showExamples)

\* A loadModels whose failure message is put in the error of App.
loadModels_FailureReachesApp(ok) ==
    /\ "models" \in loads
    /\ loads' = loads \ {"models"}
    /\ models' = IF ok THEN ModelsResponse.models ELSE models
    /\ error' = IF ok THEN error ELSE Str(LoadModelsMessage)
    /\ UNCHANGED <<query, analysis, isLoading, examples, activeTab, currentModel,
                   selectedDatabase, requests>>
    /\ selector' = IF ok THEN [selector EXCEPT !.currentModel = ModelsResponse.current_model,
                                                !.isLoading = FALSE]
                   ELSE [selector EXCEPT !.error = Str(LoadModelsMessage),
                                         !.isLoading = FALSE]
    /\ UNCHANGED <<overtaken, switches, profiles, deletes, deleted>>
    /\ Reconcile(showExamples)

\* loadModels of ModelSelector settling
loadModels(ok) ==
    /\ "models" \in loads
    /\ loads' = loads \ {"models"}
    /\ models' = IF ok THEN ModelsResponse.models ELSE models
    /\ UNCHANGED <<query, analysis, isLoading, error, examples, activeTab, currentModel,
                   selectedDatabase, requests>>
    /\ selector' = IF ok THEN [selector EXCEPT !.currentModel = ModelsResponse.current_model,
                                                !.isLoading = FALSE]
                   ELSE [selector EXCEPT !.error = Str(LoadModelsMessage),
                                         !.isLoading = FALSE]
    /\ UNCHANGED <<overtaken, switches, profiles, deletes, deleted>>
    /\ Reconcile(showExamples)

\* onChange of the textarea, which is disabled while loading; App.js:62-65
handleQueryChange(newQuery) ==
    /\ activeTab = "query"
    /\ ~isLoading
    /\ query' = newQuery
    /\ error' = Null
    /\ UNCHANGED <<analysis, isLoading, examples, activeTab, currentModel,
                   selectedDatabase, models, loads, requests>>
    /\ UNCHANGED <<overtaken, sideVars>>
    /\ Reconcile(showExamples)

\* onClick of the examples button of QueryEditor, disabled while loading
toggleExamples ==
    /\ activeTab = "query"
    /\ ~isLoading
    /\ UNCHANGED <<query, analysis, isLoading, error, examples, activeTab, currentModel,
                   selectedDatabase, models, loads, requests>>
    /\ UNCHANGED <<overtaken, sideVars>>
    /\ Reconcile(~showExamples)

\* onClick of the button of an example in the open panel, which is not
\* disabled while loading
handleExampleSelect(i) ==
    /\ activeTab = "query"
    /\ showExamples
    /\ i \in 1..Len(examples)
    /\ query' = Get(examples[i], "query").v
    /\ error' = Null
    /\ UNCHANGED <<analysis, isLoading, examples, activeTab, currentModel,
                   selectedDatabase, models, loads, requests>>
    /\ UNCHANGED <<overtaken, sideVars>>
    /\ Reconcile(FALSE)

\* onClick of the clear button of QueryEditor
handleClear ==
    /\ activeTab = "query"
    /\ Trim(query) # ""
    /\ ~isLoading
    /\ query' = ""
    /\ error' = Null
    /\ UNCHANGED <<analysis, isLoading, examples, activeTab, currentModel,
                   selectedDatabase, models, loads, requests>>
    /\ UNCHANGED <<overtaken, sideVars>>
    /\ Reconcile(showExamples)

\* A handleAnalyze without the test of the query: every call submits.
callHandleAnalyze_NoBlankTest ==
    /\ Len(requests) < MaxRequests
    /\ isLoading' = TRUE
    /\ error' = Null
    /\ analysis' = ClearedAnalysis(analysis)
    /\ overtaken' = FALSE
    /\ requests' = Append(requests,
                          analyzeQuery(query, OptionalGet(selectedDatabase, "id")))
    /\ UNCHANGED <<query, examples, activeTab, currentModel, selectedDatabase, models,
                   loads>>
    /\ UNCHANGED sideVars
    /\ Reconcile(showExamples)

\* A call of handleAnalyze, up to the await; App.js:37-47
callHandleAnalyze ==
    /\ Len(requests) < MaxRequests
    /\ IF Trim(query) = ""
       THEN /\ error' = Str(EmptyQueryMessage)
            /\ UNCHANGED <<isLoading, analysis, requests, overtaken>>
       ELSE /\ isLoading' = TRUE
            /\ error' = Null
            /\ analysis' = ClearedAnalysis(analysis)
            /\ overtaken' = FALSE
            /\ requests' = Append(requests,
                                  analyzeQuery(query, OptionalGet(selectedDatabase, "id")))
    /\ UNCHANGED <<query, examples, activeTab, currentModel, selectedDatabase, models,
                   loads>>
    /\ UNCHANGED sideVars
    /\ Reconcile(showExamples)

\* onClick of the analyze button of QueryEditor, the only caller of
\* handleAnalyze; part_005:89-93, App.js:151-160
handleAnalyze ==
    /\ activeTab = "query"
    /\ ~AnalyzeDisabled(query, isLoading)
    /\ callHandleAnalyze

\* A success path without setActiveTab('results').
analyzeResolved_KeepsTab(i, data) ==
    /\ i \in 1..Len(requests)
    /\ analysis' = data
    /\ isLoading' = FALSE
    /\ requests' = RemoveAt(requests, i)
    /\ UNCHANGED <<query, error, examples, activeTab, currentModel, selectedDatabase,
                   models, loads>>
    /\ overtaken' = FALSE
    /\ UNCHANGED sideVars
    /\ Reconcile(showExamples)

\* handleAnalyze after the await when the POST succeeded; App.js:48-50, 57-59
analyzeResolved(i, data) ==
    /\ i \in 1..Len(requests)
    /\ analysis' = data
    /\ activeTab' = "results"
    /\ isLoading' = FALSE
    /\ requests' = RemoveAt(requests, i)
    /\ UNCHANGED <<query, error, examples, currentModel, selectedDatabase, models, loads>>
    /\ overtaken' = FALSE
    /\ UNCHANGED sideVars
    /\ Reconcile(showExamples)

\* A failure path without the finally block: isLoading is left set.
analyzeRejected_StaysLoading(i, err) ==
    /\ i \in 1..Len(requests)
    /\ error' = ErrorMessage(err)
    /\ requests' = RemoveAt(requests, i)
    /\ overtaken' = FALSE
    /\ UNCHANGED <<query, analysis, isLoading, examples, activeTab, currentModel,
                   selectedDatabase, models, loads, sideVars>>
    /\ Reconcile(showExamples)

\* handleAnalyze after the await when the POST failed; App.js:51-59
analyzeRejected(i, err) ==
    /\ i \in 1..Len(requests)
    /\ error' = ErrorMessage(err)
    /\ isLoading' = FALSE
    /\ requests' = RemoveAt(requests, i)
    /\ UNCHANGED <<query, analysis, examples, activeTab, currentModel, selectedDatabase,
                   models, loads>>
    /\ overtaken' = FALSE
    /\ UNCHANGED sideVars
    /\ Reconcile(showExamples)

\* onClick of a tab; the results tab is disabled without an analysis
setActiveTab(tab) ==
    /\ tab = "results" => Truthy(analysis)
    /\ activeTab' = tab
    /\ UNCHANGED <<query, analysis, isLoading, error, examples, currentModel,
                   selectedDatabase, models, loads, requests>>
    /\ UNCHANGED <<overtaken, sideVars>>
    /\ Reconcile(showExamples)

\* A click on a model of the list whose switch succeeds, taken as one step:
\* handleModelSelect of ModelSelector (part_004:31-47) with its call of
\* onModelChange, which is handleModelChange of App (App.js:67-72).
handleModelChange(modelName) ==
    /\ \E i \in 1..Len(models) : Get(models[i], "name") = Str(modelName)
    /\ currentModel' = Str(modelName)
    /\ analysis' = Null
    /\ error' = Null
    /\ UNCHANGED <<query, isLoading, examples, activeTab, selectedDatabase, models, loads,
                   requests>>
    /\ overtaken' = (Len(requests) > 0)
    /\ selector' = [currentModel |-> Str(modelName), isOpen |-> FALSE,
                    isLoading |-> FALSE, error |-> Null]
    /\ UNCHANGED <<switches, profiles, deletes, deleted>>
    /\ Reconcile(showExamples)

\* DatabaseProfiles calling onProfileSelect: a profile chosen, or null when
\* the chosen one was deleted
setSelectedDatabase(profile) ==
    /\ activeTab = "query"
    /\ profile = Null => selectedDatabase # Null
    /\ selectedDatabase' = profile
    /\ UNCHANGED <<query, analysis, isLoading, error, examples, activeTab, currentModel,
                   models, loads, requests>>
    /\ UNCHANGED <<overtaken, sideVars>>
    /\ Reconcile(showExamples)

\* The indexes of the recommendations on display.
RecommendationIndexes ==
    IF ResultsShown(activeTab, analysis) /\ Truthy(Get(analysis, "recommendations"))
    THEN 0..(Len(Get(analysis, "recommendations").v) - 1)
    ELSE {}

\* onClick of the header of a recommendation
toggleExpanded(index) ==
    /\ ResultsShown(activeTab, analysis)
    /\ index \in RecommendationIndexes
    /\ expandedItems' = IF index \in expandedItems THEN expandedItems \ {index}
                        ELSE expandedItems \cup {index}
    /\ UNCHANGED <<planVars, query, analysis, isLoading, error, examples, activeTab,
                   currentModel, selectedDatabase, showExamples, models, loads, requests,
                   overtaken, sideVars>>

\* App mounted: the state of useState, the two loads of the mount effects
\* under way, and no results tab.
InitApp ==
    /\ AppAtRest
    /\ selector = [SelectorAtRest EXCEPT !.isLoading = TRUE]
    /\ loads = {"examples", "models"}
    /\ plan = Undefined
    /\ showDetails = FALSE
    /\ expandedNodes = {}
    /\ view = Unmounted
    /\ failed = "none"

NextApp ==
    \/ \E ok \in BOOLEAN : loadExamples(ok)
    \/ \E ok \in BOOLEAN : loadModels(ok)
    \/ \E newQuery \in TypedTexts : handleQueryChange(newQuery)
    \/ toggleExamples
    \/ \E i \in 1..Len(examples) : handleExampleSelect(i)
    \/ handleClear
    \/ handleAnalyze
    \/ \E i \in 1..Len(requests) :
          \E data \in AnalysisResults(requests[i].query) : analyzeResolved(i, data)
    \/ \E i \in 1..Len(requests) : \E err \in AnalyzeErrors : analyzeRejected(i, err)
    \/ \E tab \in {"query", "results", "health"} : setActiveTab(tab)
    \/ \E i \in 1..Len(models) : handleModelChange(Get(models[i], "name").v)
    \/ setSelectedDatabase(Profile)
    \/ setSelectedDatabase(Null)
    \/ \E index \in RecommendationIndexes : toggleExpanded(index)
    \/ Next

SpecApp == InitApp /\ [][NextApp]_vars

----------------------------------------------------------------------------
(* The handlers of App called directly *)

\* handleAnalyze called as a function, whatever the analyze button allows:
\* with any query, on any tab and while a request is pending.
NextCalls ==
    \/ \E ok \in BOOLEAN : loadExamples(ok)
    \/ \E newQuery \in TypedTexts : handleQueryChange(newQuery)
    \/ toggleExamples
    \/ \E i \in 1..Len(examples) : handleExampleSelect(i)
    \/ handleClear
    \/ callHandleAnalyze
    \/ \E i \in 1..Len(requests) :
          \E data \in AnalysisResults(requests[i].query) : analyzeResolved(i, data)
    \/ \E i \in 1..Len(requests) : \E err \in AnalyzeErrors : analyzeRejected(i, err)
    \/ \E tab \in {"query", "results", "health"} : setActiveTab(tab)

SpecCalls == InitApp /\ [][NextCalls]_vars

----------------------------------------------------------------------------
(* ModelSelector and its switch requests *)

MaxSwitches == 2   \* at most this many POST /models/switch calls wait for a response

\* What App holds apart from the state of the two side components.
appState == <<query, analysis, isLoading, error, examples, activeTab, currentModel,
              selectedDatabase, showExamples, expandedItems, models, loads, requests,
              overtaken>>

\* onClick of the button of ModelSelector, disabled while it is loading;
\* part_004:59-61
toggleOpen ==
    /\ ~selector.isLoading
    /\ selector' = [selector EXCEPT !.isOpen = ~selector.isOpen]
    /\ UNCHANGED <<planVars, appState, switches, profiles, deletes, deleted>>

\* onClick of a model of the open list, up to the await; the entries of the
\* list are not disabled while a switch is pending; part_004:31-35
handleModelSelect(modelName) ==
    /\ selector.isOpen
    /\ \E i \in 1..Len(models) : Get(models[i], "name") = Str(modelName)
    /\ Len(switches) < MaxSwitches
    /\ selector' = [selector EXCEPT !.isLoading = TRUE, !.error = Null]
    /\ switches' = Append(switches, modelName)
    /\ UNCHANGED <<planVars, appState, profiles, deletes, deleted>>

\* handleModelSelect after the await when the POST succeeded
\* (part_004:36-40, 45-47), with handleModelChange of App that it calls as
\* onModelChange (App.js:67-72).
switchResolved(i) ==
    /\ i \in 1..Len(switches)
    /\ selector' = [selector EXCEPT !.currentModel = Str(switches[i]),
                                    !.isOpen = FALSE, !.isLoading = FALSE]
    /\ switches' = RemoveAt(switches, i)
    /\ currentModel' = Str(switches[i])
    /\ analysis' = Null
    /\ error' = Null
    /\ overtaken' = (Len(requests) > 0)
    /\ UNCHANGED <<query, isLoading, examples, activeTab, selectedDatabase, models, loads,
                   requests, profiles, deletes, deleted>>
    /\ Reconcile(showExamples)

\* A failed switch that still calls onModelChange.
switchRejected_CallsOnModelChange(i) ==
    /\ i \in 1..Len(switches)
    /\ selector' = [selector EXCEPT !.error = Str(SwitchModelMessage),
                                    !.isLoading = FALSE]
    /\ switches' = RemoveAt(switches, i)
    /\ currentModel' = Str(switches[i])
    /\ analysis' = Null
    /\ error' = Null
    /\ overtaken' = (Len(requests) > 0)
    /\ UNCHANGED <<query, isLoading, examples, activeTab, selectedDatabase, models, loads,
                   requests, profiles, deletes, deleted>>
    /\ Reconcile(showExamples)

\* handleModelSelect after the await when the POST failed; part_004:42-47
switchRejected(i) ==
    /\ i \in 1..Len(switches)
    /\ selector' = [selector EXCEPT !.error = Str(SwitchModelMessage),
                                    !.isLoading = FALSE]
    /\ switches' = RemoveAt(switches, i)
    /\ UNCHANGED <<planVars, appState, profiles, deletes, deleted>>

\* App with ModelSelector: the model list loads, the user edits and
\* analyzes queries, changes tabs, and switches models.
NextSwitch ==
    \/ \E ok \in BOOLEAN : loadModels(ok)
    \/ \E newQuery \in TypedTexts : handleQueryChange(newQuery)
    \/ handleAnalyze
    \/ \E i \in 1..Len(requests) :
          \E data \in AnalysisResults(requests[i].query) : analyzeResolved(i, data)
    \/ \E i \in 1..Len(requests) : \E err \in AnalyzeErrors : analyzeRejected(i, err)
    \/ \E tab \in {"query", "results", "health"} : setActiveTab(tab)
    \/ toggleOpen
    \/ \E i \in 1..Len(models) : handleModelSelect(Get(models[i], "name").v)
    \/ \E i \in 1..Len(switches) : switchResolved(i)
    \/ \E i \in 1..Len(switches) : switchRejected(i)

SpecSwitch == InitApp /\ [][NextSwitch]_vars

\* The response of a pending analyze request arrives, with either outcome.
RequestSettles ==
    \E i \in 1..Len(requests) :
        \/ \E data \in AnalysisResults(requests[i].query) : analyzeResolved(i, data)
        \/ \E err \in AnalyzeErrors : analyzeRejected(i, err)

\* The same behaviours under the assumption that every analyze request
\* is answered: the promise of App.js:48 settles.
SpecSwitchLive == SpecSwitch /\ WF_vars(RequestSettles)

----------------------------------------------------------------------------
(* DatabaseProfiles and its delete requests *)

MaxDeletes == 2   \* at most this many DELETE calls wait for a response

\* The profiles the backend holds at the start.
ReportsProfile == Obj(<<Entry("id", Num(2)), Entry("name", Str("reports"))>>)
ProfileList == <<Profile, ReportsProfile>>

\* data.profiles of GET /database/profiles: the profiles not deleted so far.
StoredProfiles(gone) == SelectSeq(ProfileList, LAMBDA p : Get(p, "id") \notin gone)

\* loadProfiles of the mount effect settling; part_002:25-41
loadProfiles(ok) ==
    /\ "profiles" \in loads
    /\ loads' = loads \ {"profiles"}
    /\ profiles' = IF ok THEN StoredProfiles(deleted) ELSE profiles
    /\ UNCHANGED <<planVars, query, analysis, isLoading, error, examples, activeTab,
                   currentModel, selectedDatabase, showExamples, expandedItems, models,
                   requests, overtaken, selector, switches, deletes, deleted>>

\* onClick of the trash button of a listed profile, confirmed, up to the
\* await: the call keeps the selectedProfile prop of the render it was made
\* in; part_002:86-95
deleteProfile(i) ==
    /\ activeTab = "query"
    /\ i \in 1..Len(profiles)
    /\ Len(deletes) < MaxDeletes
    /\ deletes' = Append(deletes, [profileId |-> Get(profiles[i], "id"),
                                   selectedProfile |-> selectedDatabase])
    /\ UNCHANGED <<planVars, appState, selector, switches, profiles, deleted>>

\* if (selectedProfile?.id === profileId) onProfileSelect(null), with the
\* selectedProfile the call was made with; part_002:103-106
SelectionAfterDelete(call, selected) ==
    IF OptionalGet(call.selectedProfile, "id") = call.profileId THEN Null ELSE selected

\* deleteProfile after the await when the backend answered with success:
\* the list is loaded again, which may fail, and the selection is cleared
\* if it was the deleted profile; part_002:97-106
deleteSucceeded(i, reloaded) ==
    /\ i \in 1..Len(deletes)
    /\ deletes' = RemoveAt(deletes, i)
    /\ deleted' = deleted \cup {deletes[i].profileId}
    /\ profiles' = IF reloaded THEN StoredProfiles(deleted') ELSE profiles
    /\ selectedDatabase' = SelectionAfterDelete(deletes[i], selectedDatabase)
    /\ UNCHANGED <<query, analysis, isLoading, error, examples, activeTab, currentModel,
                   models, loads, requests, overtaken, selector, switches>>
    /\ Reconcile(showExamples)

\* deleteProfile after the await when the backend answered with a failure
\* or the fetch threw; part_002:107-115
deleteFailed(i) ==
    /\ i \in 1..Len(deletes)
    /\ deletes' = RemoveAt(deletes, i)
    /\ UNCHANGED <<planVars, appState, selector, switches, profiles, deleted>>

\* App on the query tab with DatabaseProfiles: the list loads, the user
\* selects and deletes profiles, edits and analyzes queries.
InitProfiles ==
    /\ AppAtRest
    /\ selector = SelectorAtRest
    /\ loads = {"profiles"}
    /\ plan = Undefined
    /\ showDetails = FALSE
    /\ expandedNodes = {}
    /\ view = Unmounted
    /\ failed = "none"

NextProfiles ==
    \/ \E ok \in BOOLEAN : loadProfiles(ok)
    \/ \E i \in 1..Len(profiles) : setSelectedDatabase(profiles[i])
    \/ \E i \in 1..Len(profiles) : deleteProfile(i)
    \/ \E i \in 1..Len(deletes) : \E reloaded \in BOOLEAN : deleteSucceeded(i, reloaded)
    \/ \E i \in 1..Len(deletes) : deleteFailed(i)
    \/ \E newQuery \in TypedTexts : handleQueryChange(newQuery)
    \/ handleAnalyze
    \/ \E i \in 1..Len(requests) :
          \E data \in AnalysisResults(requests[i].query) : analyzeResolved(i, data)
    \/ \E i \in 1..Len(requests) : \E err \in AnalyzeErrors : analyzeRejected(i, err)

SpecProfiles == InitProfiles /\ [][NextProfiles]_vars

----------------------------------------------------------------------------
(* C11: a response with no plan *)

\* The analysis on display has no plan: plan_json or 'execution_plan' is
\* null or absent.
PlanMissing ==
    /\ ResultsShown(activeTab, analysis)
    /\ PlanProp(analysis).t \in {"undefined", "null"}

\* C11: while the results tab shows an analysis whose plan is missing, the
\* ExecutionPlan component renders nothing and no exception was raised, and
\* the results tab still shows the resource metrics, one item for each
\* recommendation and one item for each warning of the response.
C11_MissingPlanRendersNothing ==
    PlanMissing =>
        /\ view = Null
        /\ failed = "none"
        /\ AppView.resultsTab.v.executionPlan = Null
        /\ AppView.resultsTab.v.resourceMetrics.t = "card"
        /\ AppView.resultsTab.v.recommendations.count
             = Len(Get(analysis, "recommendations").v)
        /\ AppView.resultsTab.v.warnings.count = Len(Get(analysis, "warnings").v)
        /\ AppView.resultsTab.v.info.recommendations
             = Num(Len(Get(analysis, "recommendations").v))

\* The results tab shows a response that has no 'execution_plan' entry, with
\* its recommendation.
C11_Witness ==
    /\ PlanMissing
    /\ Get(analysis, "execution_plan") = Undefined
    /\ view = Null
    /\ AppView.resultsTab.v.recommendations.count = 1

----------------------------------------------------------------------------
(* C12: no plan document makes the viewer raise an exception *)

\* C12: on any non-null document, malformed ones included, the first render
\* and every render after a toggle, expandAll, collapseAll or the details
\* button complete with no exception, and every rendered node is labelled
\* with its node type or with "Unknown".
C12_MalformedPlanNeverRaises ==
    /\ failed = "none"
    /\ view.t = "card"
    /\ \A i \in 1..Len(Rendered) : Rendered[i].label.t = "string"

----------------------------------------------------------------------------
(* C13: one analysis at a time *)

\* C13: in every state the application reaches, through any interleaving of
\* analyze clicks, edits, example selections, tab, profile and model
\* switches with the pending response, at most one POST /analyze waits for
\* its response; one waits exactly while isLoading is true, and while it is
\* true the analyze button, where it is on display, is disabled.
C13_AtMostOneAnalyzeOutstanding ==
    /\ Len(requests) <= 1
    /\ isLoading <=> requests # <<>>
    /\ (isLoading /\ activeTab = "query")
         => AppView.queryTab.v.queryEditor.analyzeButton.disabled

\* A request is pending while the query was replaced by an example, the
\* model was switched, a profile was chosen after the click and the user
\* looks at another tab.
C13_Witness ==
    /\ Len(requests) = 1
    /\ isLoading
    /\ query # requests[1].query
    /\ Trim(query) # ""
    /\ currentModel # Null
    /\ selectedDatabase # Null
    /\ requests[1].database_profile_id = Null
    /\ activeTab = "health"

----------------------------------------------------------------------------
(* C14: a failed analysis *)

\* The 'detail' of the response the error carries, when it carries a
\* response with a non-empty one.
BackendDetail(err) ==
    LET response == Get(err, "response")
        data     == IF response.t = "object" THEN Get(response, "data") ELSE Undefined
        detail   == IF data.t = "object" THEN Get(data, "detail") ELSE Undefined
    IN  IF detail.t = "string" /\ detail.v # "" THEN detail ELSE Undefined

\* C14: when the POST of a submission fails, the error on display is one
\* non-empty string, the detail of the backend when there is one and the
\* fixed message otherwise; analysis is null; the loading flag is cleared;
\* and no request is pending, so the submission was not sent again.
C14_FailureGivesOneErrorString ==
    [][\A i \in 1..Len(requests) : \A err \in AnalyzeErrors :
          analyzeRejected(i, err) =>
              /\ error'.t = "string"
              /\ error'.v # ""
              /\ error' = IF BackendDetail(err) # Undefined THEN BackendDetail(err)
                          ELSE Str(AnalyzeFallbackMessage)
              /\ AppView'.errorBanner = error'
              /\ analysis' = Null
              /\ ~isLoading'
              /\ requests' = <<>>]_vars

\* A submission failed with a detail while the user was looking at the
\* status tab: the detail is on display and there is no analysis.
C14_Witness ==
    /\ error = Str("Query analysis failed: syntax error")
    /\ AppView.errorBanner = error
    /\ analysis = Null
    /\ ~isLoading
    /\ requests = <<>>
    /\ activeTab = "health"

----------------------------------------------------------------------------
(* C15: which nodes share an identifier *)

\* The node type of a raw node as the document gives it: undefined when the
\* node carries none.
RawType(node) == Get(node, "Node Type")

\* The node type with "unknown" standing for a missing, null or otherwise
\* falsy one.
TypeOrUnknown(node) ==
    IF Truthy(Get(node, "Node Type")) THEN Get(node, "Node Type") ELSE Str("unknown")

SharedExpandState ==
    view.t = "card" =>
        \A p, q \in Paths(plan) :
            (IsRenderedPath(view.v, p) /\ IsRenderedPath(view.v, q)
               /\ IdOfPath(p) = IdOfPath(q))
              => ViewAt(view.v, p).isExpanded = ViewAt(view.v, q).isExpanded

----------------------------------------------------------------------------
(* C16: the plan document is only read *)

----------------------------------------------------------------------------
(* C17: fields the label table does not know *)

\* The keys of a raw node that fieldNames does not list and whose value is
\* not null, 'Plans' aside, which holds the children.
UnlistedKeys(node) ==
    {key \in KeysOf(node) :
        /\ key \notin DOMAIN fieldNames
        /\ key # "Plans"
        /\ Get(node, key).t \notin {"undefined", "null"}}

\* The secondary cards of a node whose title is the key itself.
RawKeyCards(node, key) ==
    {i \in 1..Len(getSecondaryMetrics(node)) : getSecondaryMetrics(node)[i].title = key}

\* C17: a key of a node that the label table does not list, with a value
\* that is not null, has exactly one secondary card; the card is titled
\* with the key itself, carries the value and the generated description,
\* and is on display when the node is and the details are shown; no primary
\* card is titled with the key.
C17_UnlistedFieldIsSecondary ==
    \A path \in Paths(plan) :
        LET node == NodeAt(plan, path)
        IN  \A key \in UnlistedKeys(node) :
               /\ Cardinality(RawKeyCards(node, key)) = 1
               /\ \A i \in RawKeyCards(node, key) :
                      LET card == getSecondaryMetrics(node)[i]
                      IN  /\ card.value = DisplayValue(Get(node, key))
                          /\ card.description = "Opisanie dlya polya " \o key
                          /\ (showDetails /\ view.t = "card" /\ IsRenderedPath(view.v, path))
                               => \E j \in 1..Len(ViewAt(view.v, path).secondaryMetrics) :
                                     ViewAt(view.v, path).secondaryMetrics[j] = card
               /\ \A i \in 1..Len(getPrimaryMetrics(node)) :
                      getPrimaryMetrics(node)[i].title # key

\* The details of a node with 'Workers Planned': 2 are shown, and the card
\* titled "Workers Planned" is among them.
C17_Witness ==
    /\ showDetails
    /\ Get(plan, "Workers Planned") = Num(2)
    /\ "Workers Planned" \in UnlistedKeys(plan)
    /\ \E j \in 1..Len(view.v.secondaryMetrics) :
          /\ view.v.secondaryMetrics[j].title = "Workers Planned"
          /\ view.v.secondaryMetrics[j].value = Num(2)

----------------------------------------------------------------------------
(* C18: the order of recommendations and warnings *)

\* The recommendations and the warnings of the analysis on display.
ResponseRecommendations == Get(analysis, "recommendations").v
ResponseWarnings == Get(analysis, "warnings").v

\* How many recommendations of the response have the priority.
WithPriority(priority) ==
    Cardinality({i \in 1..Len(ResponseRecommendations) :
                   Get(ResponseRecommendations[i], "priority") = Str(priority)})

\* The results tab lists one item per recommendation and one per warning of
\* the response, each in the order of the response, an item is open exactly
\* when its index is among the expanded ones, and the summary holds the
\* number of recommendations of each priority.
ResponseOrderShown ==
    ResultsShown(activeTab, analysis) =>
        LET shown == AppView.resultsTab.v
        IN  /\ Len(shown.recommendations.items) = Len(ResponseRecommendations)
            /\ \A i \in 1..Len(ResponseRecommendations) :
                  /\ shown.recommendations.items[i].title
                       = Get(ResponseRecommendations[i], "title")
                  /\ shown.recommendations.items[i].description
                       = Get(ResponseRecommendations[i], "description")
                  /\ shown.recommendations.items[i].isExpanded
                       = (i - 1 \in expandedItems)
            /\ Len(shown.warnings.items) = Len(ResponseWarnings)
            /\ \A i \in 1..Len(ResponseWarnings) :
                  shown.warnings.items[i].text = ResponseWarnings[i]
            /\ shown.recommendations.summary
                 = [high |-> WithPriority("high"), medium |-> WithPriority("medium"),
                    low |-> WithPriority("low")]

\* Expanding or collapsing the recommendation at the index flips the
\* membership of that index only and leaves the response as it was.
ToggleKeepsOrder(index) ==
    /\ analysis' = analysis
    /\ \A i \in 0..(Len(ResponseRecommendations) - 1) :
          (i \in expandedItems') = IF i = index THEN i \notin expandedItems
                                   ELSE i \in expandedItems

\* C18: the recommendations and the warnings are on display in the order of
\* the analysis response, none dropped, repeated or moved, whatever the
\* other list holds; the priority summary holds the counts per priority;
\* and expanding or collapsing a recommendation flips that item only and
\* leaves the order of both lists as it was.
C18_ResponseOrderKept ==
    /\ []ResponseOrderShown
    /\ [][\A index \in RecommendationIndexes :
             toggleExpanded(index) => ToggleKeepsOrder(index)]_vars

\* The results tab shows the response whose recommendations are low, high,
\* low and whose four warnings repeat one, with the second recommendation
\* expanded.
C18_Witness ==
    /\ ResultsShown(activeTab, analysis)
    /\ ResponseRecommendations = <<AddIndex, RewriteQuery, AddIndex>>
    /\ Len(ResponseWarnings) = 4
    /\ expandedItems = {1}
    /\ LET shown == AppView.resultsTab.v.recommendations
       IN  /\ shown.items[2].isExpanded
           /\ shown.items[2].title = Str("Rewrite query")
           /\ shown.summary = [high |-> 1, medium |-> 0, low |-> 2]

----------------------------------------------------------------------------
(* C19: the first render and the background loads *)

\* No user action has changed the state of App: every useState value but
\* the loaded examples and models is the initial one.
BeforeUserAction ==
    /\ query = ""
    /\ analysis.t = "null"
    /\ ~isLoading
    /\ error.t = "null"
    /\ activeTab = "query"
    /\ currentModel.t = "null"
    /\ selectedDatabase.t = "null"
    /\ ~showExamples
    /\ requests = <<>>
    /\ failed = "none"

\* What the three tests of App.test.js look for, and no more than the
\* query tab: the title, the empty textarea with its placeholder, the
\* analyze button with its resting text, no error banner, no results.
InitialRender ==
    LET shown == AppView
    IN  /\ shown.title = "PostgreSQL Query Analyzer"
        /\ shown.queryTab.t = "tab"
        /\ shown.queryTab.v.queryEditor.textarea
             = [value |-> "", placeholder |-> "Vvedite SQL zapros dlya analiza...",
                disabled |-> FALSE]
        /\ shown.queryTab.v.queryEditor.analyzeButton
             = [disabled |-> TRUE, text |-> "Analizirovat zapros"]
        /\ shown.queryTab.v.queryEditor.examplesPanel = <<>>
        /\ shown.errorBanner.t = "null"
        /\ shown.resultsTab.t = "null"
        /\ shown.healthTab.t = "null"
        /\ shown.tabs.results.disabled

\* One of the two loads of the mount effects settles, with either outcome.
LoadSettles == \E ok \in BOOLEAN : loadExamples(ok) \/ loadModels(ok)

\* C19: App starts on the query tab with no analysis and no error; as long
\* as no user action has changed its state it renders the title, the query
\* editor and the analyze button; and a load of the examples or of the
\* models that settles, whether it succeeded or failed, leaves it so.
C19_InitialRenderIsQueryTab ==
    /\ BeforeUserAction
    /\ [](BeforeUserAction => InitialRender)
    /\ [][(BeforeUserAction /\ LoadSettles) => BeforeUserAction']_vars

\* Both loads have settled, the examples loaded and the model list failed,
\* as in App.test.js where getAvailableModels is not mocked; the first
\* render is still on display.
C19_Witness ==
    /\ loads = {}
    /\ examples = ExampleList
    /\ models = <<>>
    /\ BeforeUserAction
    /\ InitialRender

----------------------------------------------------------------------------
(* C20: the one flag of the secondary fields *)

\* The element shows all of its secondary fields when the flag is set and
\* none of them when it is not.
ShowsSecondaryAs(el, details) ==
    Len(el.secondaryMetrics) = IF details THEN el.secondaryCount ELSE 0

\* The elements the variant without expand/collapse state renders for the
\* plan under the same flag.
RenderedByVariant == Flatten(renderPlanNode(plan, 0, showDetails))

\* Every rendered node, in the tree view and in the variant, shows its
\* secondary fields exactly when the one flag is set.
DetailsFlagShared ==
    /\ \A i \in 1..Len(Rendered) : ShowsSecondaryAs(Rendered[i], showDetails)
    /\ view.t = "card" =>
          \A i \in 1..Len(RenderedByVariant) :
              ShowsSecondaryAs(RenderedByVariant[i], showDetails)

\* A click on a chevron, on "expand all" or on "collapse all".
ExpandStep ==
    \/ \E nodeId \in {Rendered[i].nodeId : i \in 1..Len(Rendered)} : toggleNode(nodeId)
    \/ expandAll
    \/ collapseAll

\* C20: showDetails is one flag for the whole plan view: every rendered
\* node shows its secondary fields exactly when it is set; the details
\* button of any node flips it and leaves the expanded set as it was; and
\* toggling a node, "expand all" and "collapse all" leave the flag as it was.
C20_DetailsFlagSharedAndIndependent ==
    /\ []DetailsFlagShared
    /\ [][setShowDetails => /\ showDetails' = ~showDetails
                            /\ expandedNodes' = expandedNodes]_vars
    /\ [][ExpandStep => showDetails' = showDetails]_vars

\* The flag is set while the root is expanded over a child, both have
\* secondary fields and both show them.
C20_Witness ==
    /\ showDetails
    /\ expandedNodes # {}
    /\ Len(Rendered) >= 2
    /\ Rendered[1].secondaryCount > 0
    /\ Rendered[2].secondaryCount > 0
    /\ Len(Rendered[1].secondaryMetrics) > 0
    /\ Len(Rendered[2].secondaryMetrics) > 0

----------------------------------------------------------------------------
(* C21: what a model switch does to the analysis and the error *)

\* A successful switch leaves App with the new model, no analysis, no
\* error and no results on display.
SwitchClears(i) ==
    /\ currentModel' = Str(switches[i])
    /\ analysis'.t = "null"
    /\ error'.t = "null"
    /\ ~ResultsShown(activeTab', analysis')
    /\ view'.t = "unmounted"

\* A failed switch leaves the model of the selector and the model, the
\* analysis and the error of App as they were: onModelChange did not run.
SwitchFailureKeeps ==
    /\ selector'.currentModel = selector.currentModel
    /\ currentModel' = currentModel
    /\ analysis' = analysis
    /\ error' = error

\* C21: a switch of the model that succeeds clears the analysis and the
\* error of App in the same update that sets the new model; a switch that
\* fails changes neither the selector's current model nor the model, the
\* analysis or the error of App.
C21_SwitchClearsOnSuccessOnly ==
    [][\A i \in 1..Len(switches) :
          /\ switchResolved(i) => SwitchClears(i)
          /\ switchRejected(i) => SwitchFailureKeeps]_vars

\* An analysis was on the results tab when the switch to "openai" succeeded:
\* the tab is still the active one and has nothing to show.
C21_Witness ==
    /\ activeTab = "results"
    /\ analysis.t = "null"
    /\ currentModel = Str("openai")
    /\ selector.currentModel = Str("openai")

\* An analysis is on display next to the message of a switch that failed.
C21_WitnessFailure ==
    /\ selector.error = Str(SwitchModelMessage)
    /\ selector.currentModel = Str("local")
    /\ Truthy(analysis)
    /\ activeTab = "results"

----------------------------------------------------------------------------
(* C22: the selection after a profile was deleted *)

\* The selected profile is none of the deleted ones.
SelectionNotDeleted ==
    Truthy(selectedDatabase) => Get(selectedDatabase, "id") \notin deleted

\* The request handleAnalyze just made carries the id of no deleted profile.
RequestNotOfDeleted ==
    Len(requests') > Len(requests)
        => requests'[Len(requests')].database_profile_id \notin deleted

\* C22: once the delete of a profile has succeeded that profile is not the
\* selected one, whatever was selected while the delete was pending, and no
\* analyze request made from then on carries its id.
C22_DeletedProfileNeverSelected ==
    /\ []SelectionNotDeleted
    /\ [][handleAnalyze => RequestNotOfDeleted]_vars

----------------------------------------------------------------------------
(* C23: which nodes of the tree are rendered *)

\* The identifiers of all ancestors of the node at the path are expanded.
AncestorsExpanded(path) ==
    \A k \in 0..(Len(path) - 1) : IdOfPath(SubSeq(path, 1, k)) \in expandedNodes

\* The paths of the elements of a rendered tree.
RECURSIVE RenderedPaths(_)
RenderedPaths(el) ==
    {<<>>} \cup
    UNION {{<<i>> \o path : path \in RenderedPaths(el.children[i])} :
             i \in 1..Len(el.children)}

\* A node is rendered exactly when all of its ancestors are expanded, and
\* the element rendered for it carries its identifier; with nothing
\* expanded the root alone is rendered, and with every identifier expanded
\* every node is.
RenderedIffAncestorsExpanded ==
    view.t = "card" =>
        /\ RenderedPaths(view.v) = {path \in Paths(plan) : AncestorsExpanded(path)}
        /\ expandedNodes = {} => RenderedPaths(view.v) = {<<>>}
        /\ Range(collectNodeIds(plan, 0, 0)) \subseteq expandedNodes
              => RenderedPaths(view.v) = Paths(plan)
        /\ Len(Rendered) = Cardinality(RenderedPaths(view.v))

\* C23: a node of the plan is rendered if and only if the identifier of
\* every one of its ancestors is in the expanded set; the expanded set is
\* empty at the start and after "collapse all", when the root alone is
\* rendered, and holds every identifier after "expand all", when every
\* node is rendered.
C23_RenderedIffAncestorsExpanded ==
    /\ expandedNodes = {}
    /\ []RenderedIffAncestorsExpanded
    /\ [][collapseAll => expandedNodes' = {}]_vars
    /\ [][expandAll => Range(collectNodeIds(plan, 0, 0)) \subseteq expandedNodes']_vars

\* In the plan with two branches the root and its first child are
\* expanded and its second child is not: the child of the first is
\* rendered, the child of the second and the grandchildren are not.
C23_Witness ==
    /\ plan = SharedIdPlan
    /\ expandedNodes = {IdOfPath(<<>>), IdOfPath(<<1>>)}
    /\ RenderedPaths(view.v) = {<<>>, <<1>>, <<2>>, <<1, 1>>}
    /\ <<2, 1>> \in Paths(plan)
    /\ Len(Rendered) = 4

----------------------------------------------------------------------------
(* C24: what a toggle leaves alone *)

\* The identifiers of the rendered nodes that have a chevron.
Toggleable == {Rendered[i].nodeId : i \in {j \in 1..Len(Rendered) : Rendered[j].toggleButton}}

\* Toggling the node changes the membership of no other identifier.
OthersKeepMembership(nodeId) ==
    \A other \in (expandedNodes \cup expandedNodes') \ {nodeId} :
        (other \in expandedNodes') = (other \in expandedNodes)

\* Toggling a rendered node twice gives the expanded set and the rendered
\* tree of before: the descendants that were shown are shown again.
TwiceToggledSameView ==
    \A nodeId \in Toggleable :
        LET once  == NewExpandedNodes(expandedNodes, nodeId)
            twice == NewExpandedNodes(once, nodeId)
        IN  /\ once \ {nodeId} = expandedNodes \ {nodeId}
            /\ twice = expandedNodes
            /\ ExecutionPlan(plan, twice, showDetails) = view

\* C24: a toggle changes the membership of the toggled identifier only, so
\* the identifiers of the descendants of a collapsed node stay in the set,
\* and expanding the node again renders the tree as it was before the
\* collapse.
C24_ToggleKeepsOtherIds ==
    /\ []TwiceToggledSameView
    /\ [][\A nodeId \in Toggleable : toggleNode(nodeId) => OthersKeepMembership(nodeId)]_vars

\* The root of the plan with two branches was collapsed while its first
\* child was expanded: the root alone is rendered and the identifier of the
\* child is still in the set.
C24_Witness ==
    /\ plan = SharedIdPlan
    /\ IdOfPath(<<>>) \notin expandedNodes
    /\ IdOfPath(<<1>>) \in expandedNodes
    /\ Len(Rendered) = 1

----------------------------------------------------------------------------
(* C25: the viewer state of a new analysis *)

\* The results tab shows the analysis with a viewer in its initial state:
\* nothing expanded, no secondary fields, no recommendation open.
FreshResults(data) ==
    /\ ResultsShown(activeTab', analysis')
    /\ plan' = PlanProp(data)
    /\ expandedNodes' = {}
    /\ showDetails' = FALSE
    /\ expandedItems' = {}
    /\ view' = ExecutionPlan(PlanProp(data), {}, FALSE)

\* While no analysis is on display there is no viewer and no viewer state.
NoViewerStateWithoutResults ==
    ~ResultsShown(activeTab, analysis) =>
        /\ view = Unmounted
        /\ expandedNodes = {}
        /\ showDetails = FALSE

\* C25: when the response of an analysis arrives its plan is displayed by a
\* viewer whose expanded set is empty and whose show-details flag is
\* false, whatever was expanded in the viewer of an earlier analysis and
\* whatever tab and model changes came in between.
C25_NewAnalysisStartsCollapsed ==
    /\ []NoViewerStateWithoutResults
    /\ [][\A i \in 1..Len(requests) : \A data \in AnalysisResults(requests[i].query) :
             analyzeResolved(i, data) => FreshResults(data)]_vars

\* After a model change the results tab shows the join plan of a new
\* analysis with nothing expanded.
C25_Witness ==
    /\ ResultsShown(activeTab, analysis)
    /\ currentModel.t = "string"
    /\ plan = JoinPlan
    /\ view.t = "card"
    /\ Len(Rendered) = 1
    /\ expandedNodes = {}
    /\ ~showDetails

----------------------------------------------------------------------------
(* C26: a response that arrives after a model change *)

\* C26: when handleModelChange has run since an analyze request was made,
\* the response of that request does not become the analysis on display.
C26_OvertakenResponseNotShown ==
    [][\A i \in 1..Len(requests) : \A data \in AnalysisResults(requests[i].query) :
          (overtaken /\ analyzeResolved(i, data)) => analysis'.t = "null"]_vars

----------------------------------------------------------------------------
(* C27: the error and the analysis *)

\* Not both an error and an analysis are held, so the error banner, which
\* is rendered for a truthy error, is never rendered together with the
\* content of the results tab.
ErrorOrAnalysis ==
    /\ ~(error.t # "null" /\ analysis.t # "null")
    /\ ~(Truthy(error) /\ ResultsShown(activeTab, analysis))

\* C27: in every state App reaches through its user interface, error and
\* analysis are not both non-null, so no error message is on display
\* together with an analysis result.
C27_NeverErrorWithAnalysis == []ErrorOrAnalysis

\* After a model change an analysis failed: the banner shows the error on
\* the query tab and there is no analysis.
C27_Witness ==
    /\ error.t = "string"
    /\ analysis.t = "null"
    /\ currentModel.t = "string"
    /\ activeTab = "query"
    /\ ~isLoading
    /\ Truthy(error)
    /\ ~ResultsShown(activeTab, analysis)

----------------------------------------------------------------------------
(* C28: every submission ends *)

\* isLoading is set exactly while an analyze request is in flight.
LoadingIffInFlight == isLoading <=> Len(requests) > 0

\* The response of a request leaves isLoading false and exactly one of
\* analysis and error set: the analysis on success, the error on failure.
SettlesWithOneOutcome ==
    \A i \in 1..Len(requests) :
        /\ \A data \in AnalysisResults(requests[i].query) :
              analyzeResolved(i, data) =>
                  ~isLoading' /\ analysis' = data /\ error'.t = "null"
        /\ \A err \in AnalyzeErrors :
              analyzeRejected(i, err) =>
                  ~isLoading' /\ error'.t = "string" /\ analysis'.t = "null"

\* C28: if every analyze request is answered, every submission that starts
\* a request is followed by a state in which isLoading is false, reached
\* by a step that sets exactly one of analysis and error; isLoading is
\* true only while a request is in flight.
C28_SubmissionEventuallySettles ==
    /\ []LoadingIffInFlight
    /\ [][SettlesWithOneOutcome]_vars
    /\ (isLoading ~> ~isLoading)

\* The request for "SELECT 1" was answered with its analysis: nothing is
\* in flight, isLoading is false, the analysis is set and the error is not.
C28_Witness ==
    /\ ~isLoading
    /\ requests = <<>>
    /\ Truthy(analysis)
    /\ Get(analysis, "query") = Str("SELECT 1")
    /\ error.t = "null"

----------------------------------------------------------------------------
(* C29: handleAnalyze with a blank query *)

BlankQuery == Trim(query) = ""

\* A call with a blank query sets the error message and leaves the
\* requests, the analysis, the loading flag and the tab as they were.
BlankCallOnlySetsError ==
    (BlankQuery /\ callHandleAnalyze) =>
        /\ error' = Str(EmptyQueryMessage)
        /\ requests' = requests
        /\ analysis' = analysis
        /\ isLoading' = isLoading
        /\ activeTab' = activeTab

\* C29: handleAnalyze called with an empty or whitespace-only query sets
\* error to the "enter a query" message, issues no request and leaves
\* analysis, isLoading and activeTab unchanged.
C29_BlankQueryOnlySetsError == [][BlankCallOnlySetsError]_vars

\* handleAnalyze was called with a blank query while an analysis was on
\* display: the message is set and the analysis is still there.
C29_Witness ==
    /\ BlankQuery
    /\ error = Str(EmptyQueryMessage)
    /\ Truthy(analysis)
    /\ activeTab = "results"
    /\ requests = <<>>
    /\ ~isLoading

----------------------------------------------------------------------------
(* C30: the results tab *)

\* The results tab button is disabled exactly when analysis is null, and
\* the content of the results tab is mounted only with an analysis.
ResultsNeedAnalysis ==
    /\ ResultsTabDisabled(analysis) <=> (analysis.t = "null")
    /\ view.t # "unmounted" => (analysis.t # "null" /\ activeTab = "results")
    /\ ResultsShown(activeTab, analysis) => analysis.t # "null"

\* A successful analyze sets analysis to the response data and the tab to
\* 'results'; a failed one leaves the tab where it was.
OutcomeSetsTab ==
    \A i \in 1..Len(requests) :
        /\ \A data \in AnalysisResults(requests[i].query) :
              analyzeResolved(i, data) => (analysis' = data /\ activeTab' = "results")
        /\ \A err \in AnalyzeErrors :
              analyzeRejected(i, err) => activeTab' = activeTab

\* C30: a successful analyze sets analysis to the response data and
\* switches activeTab to 'results'; a failed analyze leaves activeTab
\* unchanged; the results tab button is disabled exactly when analysis is
\* null, so the results content is shown only when an analysis exists.
C30_ResultsTabFollowsAnalysis ==
    /\ []ResultsNeedAnalysis
    /\ [][OutcomeSetsTab]_vars

\* A successful analyze submitted from the query tab has moved to the
\* results tab: its button is enabled and the content is mounted.
C30_Witness ==
    /\ activeTab = "results"
    /\ analysis.t = "object"
    /\ ~ResultsTabDisabled(analysis)
    /\ view.t # "unmounted"
    /\ requests = <<>>

\* A failed analyze submitted from the query tab: still on the query tab,
\* no analysis, the results tab button disabled.
C30_WitnessFailure ==
    /\ activeTab = "query"
    /\ error.t = "string"
    /\ error.v # EmptyQueryMessage
    /\ ResultsTabDisabled(analysis)
    /\ view.t = "unmounted"

====
